---------------------------- MODULE Spec2Model ----------------------------
(***************************************************************************)
(* A model of the ld65-rs link pipeline (src/src/link): LinkGraph::new,    *)
(* LinkLayout::new, SymbolTable::new (build_exports + Resolver) and        *)
(* emit_file.                                                              *)
(*                                                                         *)
(* Conventions.  Rust indices are 0-based and are kept 0-based as VALUES   *)
(* (MemIdx, SegIdx, SectIdx, ObjIdx, ...); the tables that Rust indexes by *)
(* them are TLA+ sequences, read with At(table, idx) == table[idx + 1].    *)
(* An Option<T> is a record [some, val].  A panic!/assert!/expect failure  *)
(* is modelled by setting `fatal` to the kind of the message and `pc` to   *)
(* "fatal"; nothing runs after it (the process aborts).                    *)
(***************************************************************************)
EXTENDS Integers, Sequences, FiniteSets, TLC

VARIABLES
    script,     \* LinkScript: [outfile_count, mems, segs]        (input)
    objs,       \* &[Object]: sections / imports / exports        (input)
    pc,         \* position in link(): which stage / loop header is next
    fatal,      \* "none", or the kind of the panic that aborted the link
    graph,      \* LinkGraph (built by LinkGraph::new)
    layout,     \* LinkLayout tables: files, mems, segs, sects (Option each)
    cur,        \* locals of LinkLayout::new's nested loops
    exports,    \* Exports: the IndexMap built by build_exports (in index order)
    table,      \* ResolveTable: per object, per import slot, a ResolveEntry
    stack,      \* the active resolve_import / resolve_expr call chain
    top,        \* position of Resolver::solve's top-level double loop
    evals,      \* per slot: how many times its export expression was evaluated
    sym_table,  \* SymbolTable: per object, per import slot, the resolved value
    outputs,    \* LinkOutputs: the emitted buffers, one per file so far
    written     \* main(): the output files written to disk so far

vars == <<script, objs, pc, fatal, graph, layout, cur,
          exports, table, stack, top, evals, sym_table, outputs, written>>

-----------------------------------------------------------------------------
(* Bounds of the model.                                                    *)

MaxSectLen == 4
MaxMemLen == 5
MaxSects == 2

-----------------------------------------------------------------------------
(* Generic helpers.                                                        *)

At(s, i) == s[i + 1]

Some(x) == [some |-> TRUE, val |-> x]
None == [some |-> FALSE, val |-> 0]

Indices(s) == [i \in 1..Len(s) |-> i - 1]

RECURSIVE SumSeq(_)
SumSeq(s) == IF s = <<>> THEN 0 ELSE Head(s) + SumSeq(Tail(s))

RECURSIVE Flatten(_)
Flatten(ss) == IF ss = <<>> THEN <<>> ELSE Head(ss) \o Flatten(Tail(ss))

Repeat(x, n) == [i \in 1..n |-> x]

SeqsUpTo(S, n) == UNION {[1..k -> S] : k \in 0..n}

-----------------------------------------------------------------------------
(* i64, the type of an expression's value.  An i64 v is the record         *)
(* [hi, lo] with v = hi * 65536 + lo and 0 <= lo < 65536, so that the      *)
(* bounds of the 4-byte fragment types are values of the model.            *)

i64(hi, lo) == [hi |-> hi + lo \div 65536, lo |-> lo % 65536]

\* `n as i64` of a usize
as_i64(n) == i64(0, n)

i64_add(a, b) == i64(a.hi + b.hi, a.lo + b.lo)
i64_sub(a, b) == i64(a.hi - b.hi, a.lo - b.lo)
i64_neg(a) == i64(0 - a.hi, 0 - a.lo)

\* a <= b
i64_le(a, b) == a.hi < b.hi \/ (a.hi = b.hi /\ a.lo <= b.lo)

\* v >> 8 (arithmetic)
i64_shr8(v) == [hi |-> v.hi \div 256, lo |-> (v.hi % 256) * 256 + v.lo \div 256]

-----------------------------------------------------------------------------
(* NonemptyRange (src/src/range.rs).                                       *)

from_start_len(start, len) == [min |-> start, max |-> start + len - 1]

range_len(r) == r.max - r.min + 1

range_contains(r, x) == r.min <= x /\ x <= r.max

-----------------------------------------------------------------------------
(* LinkScript (src/src/script/mod.rs).                                     *)

Unspecified == [kind |-> "Unspecified", val |-> 0]
Addr(a) == [kind |-> "Addr", val |-> a]
Align(a) == [kind |-> "Align", val |-> a]

LinkScriptMemory(start, len, filled, fill_byte, outfile_i) ==
    [range |-> from_start_len(start, len), filled |-> filled,
     fill_byte |-> fill_byte, outfile_i |-> outfile_i]

LinkScriptSegment(name, start, bss, fill_byte, mem_i) ==
    [name |-> name, start |-> start, bss |-> bss,
     fill_byte |-> fill_byte, mem_i |-> mem_i]

memory_start(mem) == mem.range.min

memory_len(mem) == range_len(mem.range)

\* eval_segments: an explicit start address lies inside the load memory.
SegmentStartInMemory(s, seg) ==
    seg.start.kind = "Addr" =>
        range_contains(At(s.mems, seg.mem_i).range, seg.start.val)

-----------------------------------------------------------------------------
(* Object (src/src/object.rs): what the linker reads of a parsed object.   *)

Section(seg_name, len, align, fragments) ==
    [seg_name |-> seg_name, len |-> len, align |-> align,
     fragments |-> fragments]

Object(sections, imports, exps) ==
    [sections |-> sections, imports |-> imports, exports |-> exps]

-----------------------------------------------------------------------------
(* LinkGraph::new (src/src/link/graph.rs).                                 *)

\* The predefined names without BSS.
PredefWithoutBss == {"CODE", "DATA", "NULL", "RODATA", "ZEROPAGE"}

PREDEF_SEG_NAMES == {"BSS", "CODE", "DATA", "NULL", "RODATA", "ZEROPAGE"}

\* seg_name_to_idx.get(name): the index of the segment of that name, or None.
seg_name_to_idx(s, name) ==
    LET hits == {i \in 0..(Len(s.segs) - 1) : At(s.segs, i).name = name} IN
    IF hits = {} THEN None ELSE Some(CHOOSE i \in hits : TRUE)

build_file_mem(s) ==
    [file_to_mems |->
        [f \in 1..s.outfile_count |->
            SelectSeq(Indices(s.mems),
                      LAMBDA m : At(s.mems, m).outfile_i = f - 1)],
     mem_to_file |-> [m \in 1..Len(s.mems) |-> s.mems[m].outfile_i]]

build_mem_seg(s) ==
    [mem_to_segs |->
        [m \in 1..Len(s.mems) |->
            SelectSeq(Indices(s.segs),
                      LAMBDA g : At(s.segs, g).mem_i = m - 1)],
     seg_to_mem |-> [g \in 1..Len(s.segs) |-> s.segs[g].mem_i]]

EmptySegObjSect(s, o) ==
    [fatal |-> "none",
     seg_to_sects |-> [g \in 1..Len(s.segs) |-> <<>>],
     obj_to_sects |-> [i \in 1..Len(o) |-> <<>>],
     sect_to_seg |-> <<>>,
     obj_sect_to_sect |-> <<>>,
     sect_to_obj_sect |-> <<>>]

\* One iteration of the inner loop that records a dropped section as if it
\* had got the next identity.
MapSectionKeepDropped(s, o, obj_i, obj_sect_i, acc, row) ==
    LET obj_sect == At(At(o, obj_i).sections, obj_sect_i)
        seg_i == IF \E g \in 1..Len(s.segs) : s.segs[g].name = obj_sect.seg_name
                 THEN Some(CHOOSE g \in 0..(Len(s.segs) - 1) :
                            At(s.segs, g).name = obj_sect.seg_name)
                 ELSE None
        sect_i == Len(acc.sect_to_seg)
    IN  IF seg_i.some
        THEN [acc |->
                [acc EXCEPT
                    !.seg_to_sects[seg_i.val + 1] = Append(@, sect_i),
                    !.obj_to_sects[obj_i + 1] = Append(@, sect_i),
                    !.sect_to_seg = Append(@, seg_i.val),
                    !.sect_to_obj_sect = Append(@, <<obj_i, obj_sect_i>>)],
              row |-> Append(row, Some(sect_i))]
        ELSE IF obj_sect.len = 0
        THEN [acc |-> acc, row |-> Append(row, Some(sect_i))]
        ELSE [acc |-> [acc EXCEPT !.fatal = "cannot handle segment"],
              row |-> row]

\* One iteration of the inner loop of build_seg_obj_sect: local section
\* obj_sect_i of object obj_i; `row` is obj_sect_to_sect_row, and the next
\* free SectIdx is Len(acc.sect_to_seg).
MapSection(s, o, obj_i, obj_sect_i, acc, row) ==
    LET obj_sect == At(At(o, obj_i).sections, obj_sect_i)
        seg_i == seg_name_to_idx(s, obj_sect.seg_name)
        sect_i == Len(acc.sect_to_seg)
    IN  IF seg_i.some
        THEN [acc |->
                [acc EXCEPT
                    !.seg_to_sects[seg_i.val + 1] = Append(@, sect_i),
                    !.obj_to_sects[obj_i + 1] = Append(@, sect_i),
                    !.sect_to_seg = Append(@, seg_i.val),
                    !.sect_to_obj_sect = Append(@, <<obj_i, obj_sect_i>>)],
              row |-> Append(row, Some(sect_i))]
        ELSE IF obj_sect.seg_name \in PREDEF_SEG_NAMES
        THEN IF obj_sect.len = 0
             THEN [acc |-> acc, row |-> Append(row, None)]
             ELSE [acc |-> [acc EXCEPT !.fatal = "cannot handle segment"],
                   row |-> row]
        ELSE [acc |-> [acc EXCEPT !.fatal = "unknown segment"], row |-> row]

RECURSIVE MapSections(_, _, _, _, _, _)
MapSections(s, o, obj_i, obj_sect_i, acc, row) ==
    IF acc.fatal # "none" THEN acc
    ELSE IF obj_sect_i >= Len(At(o, obj_i).sections)
    THEN [acc EXCEPT !.obj_sect_to_sect = Append(@, row)]
    ELSE LET r == MapSection(s, o, obj_i, obj_sect_i, acc, row) IN
         MapSections(s, o, obj_i, obj_sect_i + 1, r.acc, r.row)

RECURSIVE MapObjects(_, _, _, _)
MapObjects(s, o, obj_i, acc) ==
    IF acc.fatal # "none" \/ obj_i >= Len(o) THEN acc
    ELSE MapObjects(s, o, obj_i + 1, MapSections(s, o, obj_i, 0, acc, <<>>))

build_seg_obj_sect(s, o) == MapObjects(s, o, 0, EmptySegObjSect(s, o))

LinkGraph_new(s, o) ==
    LET fm == build_file_mem(s)
        ms == build_mem_seg(s)
        gs == build_seg_obj_sect(s, o)
    IN  [fatal |-> gs.fatal,
         file_to_mems |-> fm.file_to_mems,
         mem_to_file |-> fm.mem_to_file,
         mem_to_segs |-> ms.mem_to_segs,
         seg_to_mem |-> ms.seg_to_mem,
         seg_to_sects |-> gs.seg_to_sects,
         obj_to_sects |-> gs.obj_to_sects,
         sect_to_seg |-> gs.sect_to_seg,
         obj_sect_to_sect |-> gs.obj_sect_to_sect,
         sect_to_obj_sect |-> gs.sect_to_obj_sect]

NoGraph == LinkGraph_new([outfile_count |-> 0, mems |-> <<>>, segs |-> <<>>],
                         <<>>)

\* The file count of a linker that stops after its first output file.
FirstFileOnly(g) == 1

file_count(g) == Len(g.file_to_mems)
mem_count(g) == Len(g.mem_to_segs)
seg_count(g) == Len(g.seg_to_sects)
sect_count(g) == Len(g.sect_to_seg)

-----------------------------------------------------------------------------
(* LinkLayout::new (src/src/link/layout.rs).                               *)

NoLayout == [files |-> <<>>, mems |-> <<>>, segs |-> <<>>, sects |-> <<>>]

NoLayoutMemory ==
    [file_off |-> 0, range |-> [min |-> 0, max |-> 0], output_len |-> 0,
     filled |-> FALSE, fill_byte |-> 0]

NoLayoutSegment == [start |-> 0, output_len |-> 0, fill_byte |-> None]

NoCur ==
    [file_i |-> 0, file_off |-> 0, mem_k |-> 0, addr |-> 0,
     layout_mem |-> NoLayoutMemory, seg_k |-> 0,
     layout_seg |-> NoLayoutSegment, sect_k |-> 0]

\* The start policy without the overlap assertion.
ResolveSegmentStartUnchecked(addr, start) ==
    [fatal |-> "none", addr |-> IF start.kind = "Addr" THEN start.val ELSE addr]

\* The start policy with a strict overlap assertion (addr < start).
ResolveSegmentStartStrict(addr, start) ==
    CASE start.kind = "Unspecified" -> [fatal |-> "none", addr |-> addr]
      [] start.kind = "Addr" ->
            IF addr < start.val
            THEN [fatal |-> "none", addr |-> start.val]
            ELSE [fatal |-> "segment overwrites another segment",
                  addr |-> addr]
      [] start.kind = "Align" ->
            IF start.val = 1
            THEN [fatal |-> "none", addr |-> addr]
            ELSE [fatal |-> "segment alignment is not supported",
                  addr |-> addr]

\* The start policy that rounds the cursor up to the alignment.
ResolveSegmentStartRounding(addr, start) ==
    CASE start.kind = "Unspecified" -> [fatal |-> "none", addr |-> addr]
      [] start.kind = "Addr" ->
            IF addr <= start.val
            THEN [fatal |-> "none", addr |-> start.val]
            ELSE [fatal |-> "segment overwrites another segment",
                  addr |-> addr]
      [] start.kind = "Align" ->
            [fatal |-> "none",
             addr |-> ((addr + start.val - 1) \div start.val) * start.val]

\* The match on script_seg.start(): the address cursor after the segment's
\* start policy, or the assertion that fails.
ResolveSegmentStart(addr, start) ==
    CASE start.kind = "Unspecified" -> [fatal |-> "none", addr |-> addr]
      [] start.kind = "Addr" ->
            IF addr <= start.val
            THEN [fatal |-> "none", addr |-> start.val]
            ELSE [fatal |-> "segment overwrites another segment",
                  addr |-> addr]
      [] start.kind = "Align" ->
            IF start.val = 1
            THEN [fatal |-> "none", addr |-> addr]
            ELSE [fatal |-> "segment alignment is not supported",
                  addr |-> addr]

\* A section's output length that ignores the BSS flag.
SectionOutputLenRaw(bss, sect_len) == sect_len

\* The segment's accumulator overwritten instead of added to.
SetSegmentLen(layout_seg, output_len) ==
    [layout_seg EXCEPT !.output_len = output_len]

\* The capacity assertion with a strict comparison.
MemoryFitsStrictly(layout_mem, script_mem) ==
    layout_mem.output_len < memory_len(script_mem)

\* The end of a memory without the "filled" adjustment.
LeaveMemory(layout_mem, script_mem) == layout_mem

\* let output_len = if bss { 0 } else { sect_len };
SectionOutputLen(bss, sect_len) == IF bss THEN 0 ELSE sect_len

\* layout_seg.output_len += output_len;
AddToSegment(layout_seg, output_len) ==
    [layout_seg EXCEPT !.output_len = @ + output_len]

\* layout_mem.output_len += output_len;
AddToMemory(layout_mem, output_len) ==
    [layout_mem EXCEPT !.output_len = @ + output_len]

\* assert!(layout_mem.output_len <= script_mem.len(), ...)
MemoryFits(layout_mem, script_mem) ==
    layout_mem.output_len <= memory_len(script_mem)

\* The end of a memory that takes the declared length, filled or not.
ForceFullLen(layout_mem, script_mem) ==
    [layout_mem EXCEPT !.output_len = memory_len(script_mem)]

\* if layout_mem.filled { layout_mem.output_len = script_mem.len(); }
FinishMemory(layout_mem, script_mem) ==
    IF layout_mem.filled
    THEN [layout_mem EXCEPT !.output_len = memory_len(script_mem)]
    ELSE layout_mem

\* The file-offset cursor left where it was after a memory.
KeepFileOff(file_off, layout_mem) == file_off

\* file_off += layout_mem.output_len;
AdvanceFileOff(file_off, layout_mem) == file_off + layout_mem.output_len

\* The loop variables the walk is at.
CurMems == At(graph.file_to_mems, cur.file_i)
CurMemIdx == At(CurMems, cur.mem_k)
CurSegs == At(graph.mem_to_segs, CurMemIdx)
CurSegIdx == At(CurSegs, cur.seg_k)
CurSects == At(graph.seg_to_sects, CurSegIdx)
CurSectIdx == At(CurSects, cur.sect_k)

ObjSectOf(g, o, sect_i) ==
    LET os == At(g.sect_to_obj_sect, sect_i) IN
    At(At(o, os[1]).sections, os[2])

ResolverIdle ==
    UNCHANGED <<exports, table, stack, top, evals, sym_table>>

\* link(): let graph = LinkGraph::new(script, objs);
LinkGraphNew ==
    /\ pc = "graph"
    /\ LET g == LinkGraph_new(script, objs) IN
       /\ graph' = g
       /\ fatal' = g.fatal
       /\ pc' = IF g.fatal = "none" THEN "layout" ELSE "fatal"
    /\ UNCHANGED <<script, objs, layout, cur, outputs, written>>
    /\ ResolverIdle

\* LinkLayout::new, lines 35-38: the four tables, all None.
LayoutNew ==
    /\ pc = "layout"
    /\ layout' = [files |-> Repeat(None, file_count(graph)),
                  mems |-> Repeat(None, mem_count(graph)),
                  segs |-> Repeat(None, seg_count(graph)),
                  sects |-> Repeat(None, sect_count(graph))]
    /\ cur' = NoCur
    /\ pc' = "lay_file"
    /\ UNCHANGED <<script, objs, fatal, graph, outputs, written>>
    /\ ResolverIdle

\* for file_i in graph.files(): the loop header.  When the files are
\* exhausted LinkLayout::new returns (every entry is unwrapped).
LayoutFile ==
    /\ pc = "lay_file"
    /\ IF cur.file_i < file_count(graph)
       THEN /\ cur' = [cur EXCEPT !.file_off = 0, !.mem_k = 0]
            /\ pc' = "lay_mem"
       ELSE /\ cur' = cur
            /\ pc' = "symbols"
    /\ UNCHANGED <<script, objs, fatal, graph, layout, outputs, written>>
    /\ ResolverIdle

\* for mem_i in graph.file_to_mems(file_i): the loop header; after the last
\* memory, files[file_i] = Some(LinkLayoutFile { len: file_off }).
LayoutMemory ==
    /\ pc = "lay_mem"
    /\ IF cur.mem_k < Len(CurMems)
       THEN LET script_mem == At(script.mems, CurMemIdx) IN
            /\ cur' = [cur EXCEPT
                        !.addr = memory_start(script_mem),
                        !.layout_mem =
                            [file_off |-> cur.file_off,
                             range |-> script_mem.range,
                             output_len |-> 0,
                             filled |-> script_mem.filled,
                             fill_byte |-> script_mem.fill_byte],
                        !.seg_k = 0]
            /\ layout' = layout
            /\ pc' = "lay_seg"
       ELSE /\ layout' = [layout EXCEPT
                            !.files[cur.file_i + 1] =
                                Some([len |-> cur.file_off])]
            /\ cur' = [cur EXCEPT !.file_i = @ + 1]
            /\ pc' = "lay_file"
    /\ UNCHANGED <<script, objs, fatal, graph, outputs, written>>
    /\ ResolverIdle

\* for seg_i in graph.mem_to_segs(mem_i): the loop header with the start
\* policy; after the last segment, lines 120-126 close the memory.
LayoutSegment ==
    /\ pc = "lay_seg"
    /\ IF cur.seg_k < Len(CurSegs)
       THEN LET script_seg == At(script.segs, CurSegIdx)
                r == ResolveSegmentStart(cur.addr, script_seg.start)
            IN  /\ fatal' = r.fatal
                /\ pc' = IF r.fatal = "none" THEN "lay_sect" ELSE "fatal"
                /\ cur' = [cur EXCEPT
                            !.addr = r.addr,
                            !.layout_seg =
                                [start |-> r.addr, output_len |-> 0,
                                 fill_byte |-> script_seg.fill_byte],
                            !.sect_k = 0]
                /\ layout' = layout
       ELSE LET layout_mem ==
                    FinishMemory(cur.layout_mem, At(script.mems, CurMemIdx))
            IN  /\ layout' = [layout EXCEPT
                                !.mems[CurMemIdx + 1] = Some(layout_mem)]
                /\ cur' = [cur EXCEPT
                            !.layout_mem = layout_mem,
                            !.file_off = AdvanceFileOff(@, layout_mem),
                            !.mem_k = @ + 1]
                /\ fatal' = fatal
                /\ pc' = "lay_mem"
    /\ UNCHANGED <<script, objs, graph, outputs, written>>
    /\ ResolverIdle

\* for sect_i in graph.seg_to_sects(seg_i): the loop header and body
\* (lines 85-115); after the last section, segs[seg_i] = Some(layout_seg).
LayoutSection ==
    /\ pc = "lay_sect"
    /\ IF cur.sect_k < Len(CurSects)
       THEN LET script_mem == At(script.mems, CurMemIdx)
                bss == At(script.segs, CurSegIdx).bss
                obj_sect == ObjSectOf(graph, objs, CurSectIdx)
                sect_len == obj_sect.len
                output_len == SectionOutputLen(bss, sect_len)
                layout_seg == AddToSegment(cur.layout_seg, output_len)
                layout_mem == AddToMemory(cur.layout_mem, output_len)
            IN  IF obj_sect.align # 1
                THEN /\ fatal' = "section alignment is not supported"
                     /\ pc' = "fatal"
                     /\ UNCHANGED <<layout, cur>>
                ELSE /\ layout' = [layout EXCEPT
                                    !.sects[CurSectIdx + 1] =
                                        Some([start |-> cur.addr,
                                              output_len |-> output_len])]
                     /\ IF MemoryFits(layout_mem, script_mem)
                        THEN /\ cur' = [cur EXCEPT
                                         !.layout_seg = layout_seg,
                                         !.layout_mem = layout_mem,
                                         !.addr = @ + sect_len,
                                         !.sect_k = @ + 1]
                             /\ UNCHANGED <<fatal, pc>>
                        ELSE /\ cur' = [cur EXCEPT
                                         !.layout_seg = layout_seg,
                                         !.layout_mem = layout_mem]
                             /\ fatal' = "memory overflows"
                             /\ pc' = "fatal"
       ELSE /\ layout' = [layout EXCEPT
                            !.segs[CurSegIdx + 1] = Some(cur.layout_seg)]
            /\ cur' = [cur EXCEPT !.seg_k = @ + 1]
            /\ UNCHANGED fatal
            /\ pc' = "lay_seg"
    /\ UNCHANGED <<script, objs, graph, outputs, written>>
    /\ ResolverIdle

-----------------------------------------------------------------------------
(* Inputs.  Expressions, fragments, imports and exports as the linker      *)
(* reads them from a parsed object (xo65).                                 *)

Literal(v) == [kind |-> "Literal", value |-> v]
Symbol(i) == [kind |-> "Symbol", import_idx |-> i]
SectionRef(i) == [kind |-> "Section", section_idx |-> i]
NullExpr == [kind |-> "Null"]
Unary(op, e) == [kind |-> "Unary", op |-> op, expr |-> e]
Binary(op, l, r) == [kind |-> "Binary", op |-> op, lhs |-> l, rhs |-> r]

LiteralFrag(bytes) == [kind |-> "Literal", bytes |-> bytes]
FillFrag(n) == [kind |-> "Fill", len |-> n]
ExprFrag(ty, e) == [kind |-> ty, expr |-> e]

Import(name, addr_size) == [name |-> name, addr_size |-> addr_size]
Export(name, addr_size, e) ==
    [name |-> name, addr_size |-> addr_size, expr |-> e]

-----------------------------------------------------------------------------
(* SymbolTable::new (src/src/link/symbol.rs): build_exports, Resolver.     *)

\* exports.get_index_of(name)
get_index_of(exps, name) ==
    LET hits == {i \in 0..(Len(exps) - 1) : At(exps, i).name = name} IN
    IF hits = {} THEN None ELSE Some(CHOOSE i \in hits : TRUE)

\* exports.insert(name, desc) without the assertion on the old value.
InsertExportUnchecked(acc, obj_i, export) ==
    [acc EXCEPT
        !.exports = Append(@, [name |-> export.name, obj_i |-> obj_i,
                               addr_size |-> export.addr_size,
                               expr |-> export.expr])]

\* exports.insert(name, desc) followed by assert_eq!(old, None, ...).
InsertExport(acc, obj_i, export) ==
    IF get_index_of(acc.exports, export.name).some
    THEN [acc EXCEPT !.fatal = "duplicate export"]
    ELSE [acc EXCEPT
            !.exports = Append(@, [name |-> export.name, obj_i |-> obj_i,
                                   addr_size |-> export.addr_size,
                                   expr |-> export.expr])]

RECURSIVE InsertExports(_, _, _, _)
InsertExports(o, obj_i, k, acc) ==
    IF acc.fatal # "none" \/ obj_i >= Len(o) THEN acc
    ELSE IF k >= Len(At(o, obj_i).exports)
    THEN InsertExports(o, obj_i + 1, 0, acc)
    ELSE InsertExports(o, obj_i, k + 1,
                       InsertExport(acc, obj_i, At(At(o, obj_i).exports, k)))

build_exports(o) ==
    InsertExports(o, 0, 0, [fatal |-> "none", exports |-> <<>>])

\* ResolveState
StillResolving(v) == [tag |-> "Resolving"]
Done(v) == [tag |-> "Done", value |-> v]
Resolving == [tag |-> "Resolving"]
Unresolved(export_i) == [tag |-> "Unresolved", export_i |-> export_i]

ResolveEntry(addr_size, state) == [addr_size |-> addr_size, state |-> state]

Slot(tbl, obj_i, imp_i) == At(At(tbl, obj_i), imp_i)

\* The state written to every slot of the object instead of the one slot.
SetStateWholeRow(tbl, obj_i, imp_i, state) ==
    [tbl EXCEPT ![obj_i + 1] =
        [k \in 1..Len(@) |-> [@[k] EXCEPT !.state = state]]]

SetState(tbl, obj_i, imp_i, state) ==
    [tbl EXCEPT ![obj_i + 1][imp_i + 1].state = state]

\* The lookup of the build phase made for the first object alone.
ImportsBoundFirstObject(o, exps) ==
    \A k \in 0..(Len(At(o, 0).imports) - 1) :
        get_index_of(exps, At(At(o, 0).imports, k).name).some

\* Resolver::solve, lines 106-129: every import Unresolved, bound to the
\* index of the export of its name; the first import without one aborts.
ImportsBound(o, exps) ==
    \A obj_i \in 0..(Len(o) - 1) :
        \A k \in 0..(Len(At(o, obj_i).imports) - 1) :
            get_index_of(exps, At(At(o, obj_i).imports, k).name).some

\* Every import bound to the first export of the table.
UnresolvedTableFirst(o, exps) ==
    [i \in 1..Len(o) |->
        [k \in 1..Len(o[i].imports) |->
            ResolveEntry(o[i].imports[k].addr_size, Unresolved(0))]]

\* Every import bound to the export at its own position in the table.
UnresolvedTableByPosition(o, exps) ==
    [i \in 1..Len(o) |->
        [k \in 1..Len(o[i].imports) |->
            ResolveEntry(o[i].imports[k].addr_size,
                         Unresolved(IF k <= Len(exps) THEN k - 1 ELSE 0))]]

UnresolvedTable(o, exps) ==
    [i \in 1..Len(o) |->
        [k \in 1..Len(o[i].imports) |->
            ResolveEntry(o[i].imports[k].addr_size,
                         Unresolved(get_index_of(exps,
                                        o[i].imports[k].name).val))]]

\* The order in which resolve_expr visits the nodes of an expression: an
\* operand before its operator, lhs before rhs.  A leaf is the node itself.
RECURSIVE EvalOrder(_)
EvalOrder(e) ==
    CASE e.kind = "Unary" ->
            EvalOrder(e.expr) \o <<[kind |-> "ApplyUnary", op |-> e.op]>>
      [] e.kind = "Binary" ->
            EvalOrder(e.lhs) \o EvalOrder(e.rhs)
                \o <<[kind |-> "ApplyBinary", op |-> e.op]>>
      [] OTHER -> <<e>>

\* op.apply of the expression operators (xo65); two of them are modelled.
UnaryApply(op, v) == IF op = "neg" THEN i64_neg(v) ELSE v
BinaryApply(op, l, r) == IF op = "add" THEN i64_add(l, r) ELSE i64_sub(l, r)

\* A resolve_import activation that is evaluating its export's expression.
Frame(obj_i, imp_i, export_i, e) ==
    [obj_i |-> obj_i, imp_i |-> imp_i, export_i |-> export_i,
     code |-> EvalOrder(e), ip |-> 1, vals |-> <<>>]

\* The assertion of resolve_import left out.
AnySizeMatches(entry, export) == TRUE

\* assert_eq!(entry.addr_size, export.addr_size, ...) in resolve_import
ImportSizeMatches(entry, export) == entry.addr_size = export.addr_size

\* resolve_import without the memo: a Done slot is evaluated again.
EnterImportNoMemo(tbl, exps, obj_i, imp_i) ==
    LET entry == Slot(tbl, obj_i, imp_i) IN
    CASE entry.state.tag = "Resolving" ->
            [kind |-> "fatal", fatal |-> "circular reference",
             table |-> tbl]
      [] OTHER ->
            LET export_i ==
                    get_index_of(exps,
                        At(At(objs, obj_i).imports, imp_i).name).val
                export == At(exps, export_i)
                tbl2 == SetState(tbl, obj_i, imp_i, Resolving)
            IN  IF ImportSizeMatches(entry, export)
                THEN [kind |-> "call", table |-> tbl2,
                      frame |-> Frame(obj_i, imp_i, export_i, export.expr)]
                ELSE [kind |-> "fatal", table |-> tbl2,
                      fatal |-> "address size mismatch for symbol"]

\* resolve_import that takes a slot it has seen before, finished or not,
\* for a circular reference.
EnterImportSeenIsCycle(tbl, exps, obj_i, imp_i) ==
    LET entry == Slot(tbl, obj_i, imp_i) IN
    CASE entry.state.tag \in {"Done", "Resolving"} ->
            [kind |-> "fatal", fatal |-> "circular reference",
             table |-> tbl]
      [] entry.state.tag = "Unresolved" ->
            LET export_i == entry.state.export_i
                export == At(exps, export_i)
                tbl2 == SetState(tbl, obj_i, imp_i, Resolving)
            IN  IF ImportSizeMatches(entry, export)
                THEN [kind |-> "call", table |-> tbl2,
                      frame |-> Frame(obj_i, imp_i, export_i, export.expr)]
                ELSE [kind |-> "fatal", table |-> tbl2,
                      fatal |-> "address size mismatch for symbol"]

\* resolve_import that does not mark the slot Resolving before it evaluates
\* the export's expression.
EnterImportUnmarked(tbl, exps, obj_i, imp_i) ==
    LET entry == Slot(tbl, obj_i, imp_i) IN
    CASE entry.state.tag = "Done" ->
            [kind |-> "value", value |-> entry.state.value, table |-> tbl]
      [] entry.state.tag = "Resolving" ->
            [kind |-> "fatal", fatal |-> "circular reference",
             table |-> tbl]
      [] entry.state.tag = "Unresolved" ->
            LET export_i == entry.state.export_i
                export == At(exps, export_i)
            IN  IF ImportSizeMatches(entry, export)
                THEN [kind |-> "call", table |-> tbl,
                      frame |-> Frame(obj_i, imp_i, export_i, export.expr)]
                ELSE [kind |-> "fatal", table |-> tbl,
                      fatal |-> "address size mismatch for symbol"]

\* resolve_import up to the call of resolve_expr (lines 158-174): the value
\* of a Done slot, the panic on a Resolving slot, or the slot marked
\* Resolving and, the address sizes matching, a new activation.
EnterImport(tbl, exps, obj_i, imp_i) ==
    LET entry == Slot(tbl, obj_i, imp_i) IN
    CASE entry.state.tag = "Done" ->
            [kind |-> "value", value |-> entry.state.value, table |-> tbl]
      [] entry.state.tag = "Resolving" ->
            [kind |-> "fatal", fatal |-> "circular reference",
             table |-> tbl]
      [] entry.state.tag = "Unresolved" ->
            LET export_i == entry.state.export_i
                export == At(exps, export_i)
                tbl2 == SetState(tbl, obj_i, imp_i, Resolving)
            IN  IF ImportSizeMatches(entry, export)
                THEN [kind |-> "call", table |-> tbl2,
                      frame |-> Frame(obj_i, imp_i, export_i, export.expr)]
                ELSE [kind |-> "fatal", table |-> tbl2,
                      fatal |-> "address size mismatch for symbol"]

Bump(ev, obj_i, imp_i) == [ev EXCEPT ![obj_i + 1][imp_i + 1] = @ + 1]

Push(stk, v) == [stk EXCEPT ![Len(stk)].vals = Append(@, v)]
Advance(stk) == [stk EXCEPT ![Len(stk)].ip = @ + 1]
Pop(stk) == SubSeq(stk, 1, Len(stk) - 1)

LayoutIdle == UNCHANGED <<script, objs, graph, layout, cur>>

\* SymbolTable::new: let exports = build_exports(objs);
BuildExports ==
    /\ pc = "symbols"
    /\ LET r == build_exports(objs) IN
       /\ exports' = r.exports
       /\ fatal' = r.fatal
       /\ pc' = IF r.fatal = "none" THEN "solve_build" ELSE "fatal"
    /\ LayoutIdle
    /\ UNCHANGED <<table, stack, top, evals, sym_table, outputs, written>>

\* Resolver::solve, the build phase (lines 106-129).
SolveBuild ==
    /\ pc = "solve_build"
    /\ IF ImportsBound(objs, exports)
       THEN /\ table' = UnresolvedTable(objs, exports)
            /\ evals' = [i \in 1..Len(objs) |->
                            [k \in 1..Len(objs[i].imports) |-> 0]]
            /\ pc' = "solve"
            /\ fatal' = fatal
       ELSE /\ fatal' = "symbol is not exported"
            /\ pc' = "fatal"
            /\ UNCHANGED <<table, evals>>
    /\ top' = [obj_i |-> 0, imp_i |-> 0]
    /\ LayoutIdle
    /\ UNCHANGED <<exports, stack, sym_table, outputs, written>>

\* Resolver::solve, lines 133-154: the header of the double loop, with the
\* call self.resolve_import(&mut table, obj_i, imp_i) for the next slot;
\* after the last slot every entry is converted (unreachable!() otherwise).
SolveNext ==
    /\ pc = "solve"
    /\ stack = <<>>
    /\ IF top.obj_i >= Len(objs)
       THEN /\ IF \A i \in 1..Len(table) : \A k \in 1..Len(table[i]) :
                        table[i][k].state.tag = "Done"
               THEN /\ sym_table' =
                        [i \in 1..Len(table) |->
                            [k \in 1..Len(table[i]) |->
                                [addr_size |-> table[i][k].addr_size,
                                 value |-> table[i][k].state.value]]]
                    /\ pc' = "emit"
                    /\ fatal' = fatal
               ELSE /\ fatal' = "unreachable"
                    /\ pc' = "fatal"
                    /\ sym_table' = sym_table
            /\ UNCHANGED <<table, stack, top, evals>>
       ELSE IF top.imp_i >= Len(At(table, top.obj_i))
       THEN /\ top' = [obj_i |-> top.obj_i + 1, imp_i |-> 0]
            /\ UNCHANGED <<table, stack, evals, sym_table, pc, fatal>>
       ELSE LET r == EnterImport(table, exports, top.obj_i, top.imp_i) IN
            /\ table' = r.table
            /\ top' = [top EXCEPT !.imp_i = @ + 1]
            /\ stack' = IF r.kind = "call" THEN <<r.frame>> ELSE stack
            /\ evals' = IF r.kind = "call"
                        THEN Bump(evals, top.obj_i, top.imp_i) ELSE evals
            /\ fatal' = IF r.kind = "fatal" THEN r.fatal ELSE fatal
            /\ pc' = IF r.kind = "fatal" THEN "fatal" ELSE pc
            /\ sym_table' = sym_table
    /\ LayoutIdle
    /\ UNCHANGED <<exports, outputs, written>>

\* One node of resolve_expr in the innermost activation, or, the
\* expression being finished, the end of resolve_import (lines 178-180).
ResolveStep ==
    /\ pc = "solve"
    /\ stack # <<>>
    /\ LET f == stack[Len(stack)]
           export == At(exports, f.export_i)
       IN  IF f.ip > Len(f.code)
           THEN LET value == f.vals[Len(f.vals)] IN
                /\ table' = SetState(table, f.obj_i, f.imp_i, Done(value))
                /\ stack' = IF Len(stack) = 1 THEN <<>>
                            ELSE Push(Pop(stack), value)
                /\ UNCHANGED <<evals, fatal, pc>>
           ELSE LET node == f.code[f.ip] IN
                CASE node.kind = "Null" ->
                        /\ fatal' = "expr is null"
                        /\ pc' = "fatal"
                        /\ UNCHANGED <<table, stack, evals>>
                  [] node.kind = "Literal" ->
                        /\ stack' = Push(Advance(stack), node.value)
                        /\ UNCHANGED <<table, evals, fatal, pc>>
                  [] node.kind = "Symbol" ->
                        LET entry_nxt ==
                                Slot(table, export.obj_i, node.import_idx)
                            r == EnterImport(table, exports, export.obj_i,
                                             node.import_idx)
                        IN  IF export.addr_size # entry_nxt.addr_size
                            THEN /\ fatal' = "address size mismatch"
                                 /\ pc' = "fatal"
                                 /\ UNCHANGED <<table, stack, evals>>
                            ELSE /\ table' = r.table
                                 /\ stack' =
                                    CASE r.kind = "value" ->
                                            Push(Advance(stack), r.value)
                                      [] r.kind = "call" ->
                                            Append(Advance(stack), r.frame)
                                      [] OTHER -> stack
                                 /\ evals' =
                                    IF r.kind = "call"
                                    THEN Bump(evals, export.obj_i,
                                              node.import_idx)
                                    ELSE evals
                                 /\ fatal' = IF r.kind = "fatal"
                                             THEN r.fatal ELSE fatal
                                 /\ pc' = IF r.kind = "fatal"
                                          THEN "fatal" ELSE pc
                  [] node.kind = "Section" ->
                        LET sect_i == At(At(graph.obj_sect_to_sect,
                                            export.obj_i), node.section_idx)
                        IN  IF sect_i.some
                            THEN /\ stack' =
                                    Push(Advance(stack),
                                         as_i64(At(layout.sects,
                                                   sect_i.val).val.start))
                                 /\ UNCHANGED <<table, evals, fatal, pc>>
                            ELSE /\ fatal' = "invalid section expr"
                                 /\ pc' = "fatal"
                                 /\ UNCHANGED <<table, stack, evals>>
                  [] node.kind = "ApplyUnary" ->
                        LET n == Len(f.vals) IN
                        /\ stack' =
                            [Advance(stack) EXCEPT ![Len(stack)].vals =
                                Append(SubSeq(f.vals, 1, n - 1),
                                       UnaryApply(node.op, f.vals[n]))]
                        /\ UNCHANGED <<table, evals, fatal, pc>>
                  [] node.kind = "ApplyBinary" ->
                        LET n == Len(f.vals) IN
                        /\ stack' =
                            [Advance(stack) EXCEPT ![Len(stack)].vals =
                                Append(SubSeq(f.vals, 1, n - 2),
                                       BinaryApply(node.op, f.vals[n - 1],
                                                   f.vals[n]))]
                        /\ UNCHANGED <<table, evals, fatal, pc>>
    /\ LayoutIdle
    /\ UNCHANGED <<exports, top, sym_table, outputs, written>>

-----------------------------------------------------------------------------
(* emit_file (src/src/link/emit.rs).  A buffer is a sequence of bytes; a   *)
(* sub-slice &mut buf[off..][..len] of a slice is the pair of its absolute *)
(* start `base` (0-based) and its length `limit`, and taking it panics     *)
(* when it does not lie inside the slice it is taken from.  An emission    *)
(* in progress is [fatal, buf, frag, off]: frag is the set of positions    *)
(* written by fragments so far, off the write cursor of emit_section.      *)

\* &mut buf[off..][..len] of a slice of length avail
SliceOk(avail, off, len) == off <= avail /\ len <= avail - off

\* buf.fill(b) on the slice [base, base + len)
FillRange(buf, base, len, b) ==
    [i \in 1..Len(buf) |-> IF base < i /\ i <= base + len THEN b ELSE buf[i]]

\* buf.copy_from_slice(bytes) on the slice [base, base + Len(bytes))
CopyRange(buf, base, bytes) ==
    [i \in 1..Len(buf) |->
        IF base < i /\ i <= base + Len(bytes) THEN bytes[i - base]
        ELSE buf[i]]

Positions(base, len) == (base + 1)..(base + len)

\* EmitAt for [u8]
emit_at(e, base, limit, bytes) ==
    IF ~SliceOk(limit, e.off, Len(bytes))
    THEN [e EXCEPT !.fatal = "index out of range"]
    ELSE [e EXCEPT
            !.buf = CopyRange(@, base + e.off, bytes),
            !.frag = @ \cup Positions(base + e.off, Len(bytes)),
            !.off = @ + Len(bytes)]

emit_fill(e, base, limit, len, b) ==
    IF ~SliceOk(limit, e.off, len)
    THEN [e EXCEPT !.fatal = "index out of range"]
    ELSE [e EXCEPT
            !.buf = FillRange(@, base + e.off, len, b),
            !.frag = @ \cup Positions(base + e.off, len),
            !.off = @ + len]

\* eval_expr that takes 0 for the address of a section without a global
\* section.
RECURSIVE EvalExprLenient(_, _, _, _, _)
EvalExprLenient(g, l, st, obj_i, e) ==
    CASE e.kind = "Null" -> [fatal |-> "expr is null", value |-> 0]
      [] e.kind = "Literal" -> [fatal |-> "none", value |-> e.value]
      [] e.kind = "Symbol" ->
            [fatal |-> "none",
             value |-> At(At(st, obj_i), e.import_idx).value]
      [] e.kind = "Section" ->
            LET sect_i == At(At(g.obj_sect_to_sect, obj_i), e.section_idx)
            IN  IF sect_i.some
                THEN [fatal |-> "none",
                      value |-> as_i64(At(l.sects, sect_i.val).val.start)]
                ELSE [fatal |-> "none", value |-> as_i64(0)]
      [] e.kind = "Unary" ->
            LET v == EvalExprLenient(g, l, st, obj_i, e.expr) IN
            IF v.fatal # "none" THEN v
            ELSE [fatal |-> "none", value |-> UnaryApply(e.op, v.value)]
      [] e.kind = "Binary" ->
            LET lhs == EvalExprLenient(g, l, st, obj_i, e.lhs) IN
            IF lhs.fatal # "none" THEN lhs
            ELSE LET rhs == EvalExprLenient(g, l, st, obj_i, e.rhs) IN
                 IF rhs.fatal # "none" THEN rhs
                 ELSE [fatal |-> "none",
                       value |-> BinaryApply(e.op, lhs.value, rhs.value)]

\* Emitter::eval_expr
RECURSIVE eval_expr(_, _, _, _, _)
eval_expr(g, l, st, obj_i, e) ==
    CASE e.kind = "Null" -> [fatal |-> "expr is null", value |-> 0]
      [] e.kind = "Literal" -> [fatal |-> "none", value |-> e.value]
      [] e.kind = "Symbol" ->
            [fatal |-> "none",
             value |-> At(At(st, obj_i), e.import_idx).value]
      [] e.kind = "Section" ->
            LET sect_i == At(At(g.obj_sect_to_sect, obj_i), e.section_idx)
            IN  IF sect_i.some
                THEN [fatal |-> "none",
                      value |-> as_i64(At(l.sects, sect_i.val).val.start)]
                ELSE [fatal |-> "unknown section", value |-> 0]
      [] e.kind = "Unary" ->
            LET v == eval_expr(g, l, st, obj_i, e.expr) IN
            IF v.fatal # "none" THEN v
            ELSE [fatal |-> "none", value |-> UnaryApply(e.op, v.value)]
      [] e.kind = "Binary" ->
            LET lhs == eval_expr(g, l, st, obj_i, e.lhs) IN
            IF lhs.fatal # "none" THEN lhs
            ELSE LET rhs == eval_expr(g, l, st, obj_i, e.rhs) IN
                 IF rhs.fatal # "none" THEN rhs
                 ELSE [fatal |-> "none",
                       value |-> BinaryApply(e.op, lhs.value, rhs.value)]

\* The width in bytes of an expression fragment's type (u8, u16, U24, u32,
\* i8, i16, I24, i32).
ExprWidth(ty) ==
    CASE ty \in {"ExprU8", "ExprI8"} -> 1
      [] ty \in {"ExprU16", "ExprI16"} -> 2
      [] ty \in {"ExprU24", "ExprI24"} -> 3
      [] ty \in {"ExprU32", "ExprI32"} -> 4

\* 256^w as an i64
Pow256(w) ==
    CASE w = 1 -> i64(0, 256)
      [] w = 2 -> i64(1, 0)
      [] w = 3 -> i64(256, 0)
      [] w = 4 -> i64(65536, 0)

\* The least and the greatest value of the type: MIN and MAX of the
\* primitive types, the patterns of TryFrom<i64> for U24 and I24.
TypeMin(ty) ==
    CASE ty \in {"ExprU8", "ExprU16", "ExprU24", "ExprU32"} -> i64(0, 0)
      [] ty = "ExprI8" -> i64(0, 0 - 128)
      [] ty = "ExprI16" -> i64(0, 0 - 32768)
      [] ty = "ExprI24" -> i64(0 - 128, 0)
      [] ty = "ExprI32" -> i64(0 - 32768, 0)

TypeMax(ty) ==
    CASE ty = "ExprU8" -> i64(0, 255)
      [] ty = "ExprU16" -> i64(0, 65535)
      [] ty = "ExprU24" -> i64(255, 65535)
      [] ty = "ExprU32" -> i64(65535, 65535)
      [] ty = "ExprI8" -> i64(0, 127)
      [] ty = "ExprI16" -> i64(0, 32767)
      [] ty = "ExprI24" -> i64(127, 65535)
      [] ty = "ExprI32" -> i64(32767, 65535)

\* The fragment type's range without its upper bound.
ExprFitsBelowOnly(ty, v) == i64_le(TypeMin(ty), v)

\* value.try_into() is Ok
ExprFits(ty, v) == i64_le(TypeMin(ty), v) /\ i64_le(v, TypeMax(ty))

\* The bytes of the value most significant first.
RECURSIVE to_be_bytes(_, _)
to_be_bytes(v, w) ==
    IF w = 0 THEN <<>>
    ELSE to_be_bytes(i64_shr8(v), w - 1) \o <<v.lo % 256>>

\* to_le_bytes() of the integer types, its first three bytes for U24, I24
RECURSIVE to_le_bytes(_, _)
to_le_bytes(v, w) ==
    IF w = 0 THEN <<>>
    ELSE <<v.lo % 256>> \o to_le_bytes(i64_shr8(v), w - 1)

\* One fragment of emit_section's loop.
emit_fragment(g, l, st, e, base, limit, obj_i, frag, fill_byte) ==
    CASE frag.kind = "Literal" -> emit_at(e, base, limit, frag.bytes)
      [] frag.kind = "Fill" -> emit_fill(e, base, limit, frag.len, fill_byte)
      [] OTHER ->
            LET v == eval_expr(g, l, st, obj_i, frag.expr) IN
            IF v.fatal # "none" THEN [e EXCEPT !.fatal = v.fatal]
            ELSE IF ~ExprFits(frag.kind, v.value)
            THEN [e EXCEPT !.fatal = "expr value overflow"]
            ELSE emit_at(e, base, limit,
                         to_le_bytes(v.value, ExprWidth(frag.kind)))

RECURSIVE emit_fragments(_, _, _, _, _, _, _, _, _)
emit_fragments(g, l, st, e, base, limit, obj_i, frags, fill_byte) ==
    IF e.fatal # "none" \/ frags = <<>> THEN e
    ELSE emit_fragments(g, l, st,
                        emit_fragment(g, l, st, e, base, limit, obj_i,
                                      Head(frags), fill_byte),
                        base, limit, obj_i, Tail(frags), fill_byte)

\* Emitter::emit_section on the slice [base, base + limit)
emit_section(o, g, l, st, e, base, limit, obj_i, obj_sect_i, fill_byte) ==
    emit_fragments(g, l, st, [e EXCEPT !.off = 0], base, limit, obj_i,
                   At(At(o, obj_i).sections, obj_sect_i).fragments,
                   fill_byte)

\* Emitter::emit_segment on the slice [base, base + limit): the sections of
\* the segment from the k-th on.
RECURSIVE emit_segment(_, _, _, _, _, _, _, _, _, _)
emit_segment(o, g, l, st, e, base, limit, seg_i, fill_byte, k) ==
    LET sects == At(g.seg_to_sects, seg_i) IN
    IF e.fatal # "none" \/ k >= Len(sects) THEN e
    ELSE LET layout_sect == At(l.sects, At(sects, k)).val
             os == At(g.sect_to_obj_sect, At(sects, k))
             off == layout_sect.start - At(l.segs, seg_i).val.start
             len == layout_sect.output_len
         IN  IF len = 0
             THEN emit_segment(o, g, l, st, e, base, limit, seg_i,
                               fill_byte, k + 1)
             ELSE IF ~SliceOk(limit, off, len)
             THEN [e EXCEPT !.fatal = "index out of range"]
             ELSE emit_segment(o, g, l, st,
                               emit_section(o, g, l, st, e, base + off, len,
                                            os[1], os[2], fill_byte),
                               base, limit, seg_i, fill_byte, k + 1)

\* The fill byte of the memory, whatever the segment says.
RegionFillByte(layout_seg, layout_mem) == layout_mem.fill_byte

\* The fill byte of a segment's fill runs, and the buffer after the
\* segment's slice got its override fill byte (emit_memory, lines 71-76).
SegmentFillByte(layout_seg, layout_mem) ==
    IF layout_seg.fill_byte.some THEN layout_seg.fill_byte.val
    ELSE layout_mem.fill_byte

SegmentFill(buf, base, len, layout_seg) ==
    IF layout_seg.fill_byte.some
    THEN FillRange(buf, base, len, layout_seg.fill_byte.val)
    ELSE buf

\* Emitter::emit_memory on the slice [base, base + limit): the segments of
\* the memory from the k-th on.
RECURSIVE emit_memory(_, _, _, _, _, _, _, _, _)
emit_memory(o, g, l, st, e, base, limit, mem_i, k) ==
    LET segs == At(g.mem_to_segs, mem_i) IN
    IF e.fatal # "none" \/ k >= Len(segs) THEN e
    ELSE LET layout_mem == At(l.mems, mem_i).val
             seg_i == At(segs, k)
             layout_seg == At(l.segs, seg_i).val
             off == layout_seg.start - layout_mem.range.min
             len == layout_seg.output_len
         IN  IF len = 0
             THEN emit_memory(o, g, l, st, e, base, limit, mem_i, k + 1)
             ELSE IF ~SliceOk(limit, off, len)
             THEN [e EXCEPT !.fatal = "index out of range"]
             ELSE emit_memory(o, g, l, st,
                    emit_segment(o, g, l, st,
                        [e EXCEPT !.buf = SegmentFill(@, base + off, len,
                                                      layout_seg)],
                        base + off, len, seg_i,
                        SegmentFillByte(layout_seg, layout_mem), 0),
                    base, limit, mem_i, k + 1)

\* The memory's slice left as the buffer was allocated.
NoMemoryFill(buf, base, len, layout_mem) == buf

\* buf.fill(layout_mem.fill_byte()) on the memory's slice (emit_file).
MemoryFill(buf, base, len, layout_mem) ==
    FillRange(buf, base, len, layout_mem.fill_byte)

\* The loop of Emitter::emit_file: the memories of the file from the k-th.
RECURSIVE emit_memories(_, _, _, _, _, _, _)
emit_memories(o, g, l, st, e, file_i, k) ==
    LET mems == At(g.file_to_mems, file_i) IN
    IF e.fatal # "none" \/ k >= Len(mems) THEN e
    ELSE LET mem_i == At(mems, k)
             layout_mem == At(l.mems, mem_i).val
             off == layout_mem.file_off
             len == layout_mem.output_len
         IN  IF len = 0
             THEN emit_memories(o, g, l, st, e, file_i, k + 1)
             ELSE IF ~SliceOk(Len(e.buf), off, len)
             THEN [e EXCEPT !.fatal = "index out of range"]
             ELSE emit_memories(o, g, l, st,
                    emit_memory(o, g, l, st,
                        [e EXCEPT !.buf = MemoryFill(@, off, len,
                                                     layout_mem)],
                        off, len, mem_i, 0),
                    file_i, k + 1)

\* Emitter::emit_file: let mut buf = vec![0_u8; self.layout.file(file_i).len()];
emit_file(o, g, l, st, file_i) ==
    emit_memories(o, g, l, st,
                  [fatal |-> "none",
                   buf |-> Repeat(0, At(l.files, file_i).val.len),
                   frag |-> {}, off |-> 0],
                  file_i, 0)

\* link(), lines 22-33: the header of the loop over the files with the
\* call of emit_file; after the last file link() returns the outputs.
EmitFile ==
    /\ pc = "emit"
    /\ IF Len(outputs) < file_count(graph)
       THEN LET r == emit_file(objs, graph, layout, sym_table, Len(outputs))
            IN  /\ fatal' = r.fatal
                /\ pc' = IF r.fatal = "none" THEN "emit" ELSE "fatal"
                /\ outputs' = IF r.fatal = "none"
                              THEN Append(outputs,
                                          [file_i |-> Len(outputs),
                                           body |-> r.buf, frag |-> r.frag])
                              ELSE outputs
       ELSE /\ pc' = "write"
            /\ UNCHANGED <<fatal, outputs>>
    /\ LayoutIdle
    /\ ResolverIdle
    /\ UNCHANGED written

\* main(), lines 64-70: std::fs::write of each output in turn; a write that
\* fails ends main with the error, and after the last one main returns Ok.
WriteOutput ==
    /\ pc = "write"
    /\ IF Len(written) < Len(outputs)
       THEN \E ok \in BOOLEAN :
                IF ok
                THEN /\ written' = Append(written,
                                          outputs[Len(written) + 1].body)
                     /\ UNCHANGED <<pc, fatal>>
                ELSE /\ fatal' = "cannot write output file"
                     /\ pc' = "fatal"
                     /\ written' = written
       ELSE /\ pc' = "exit"
            /\ UNCHANGED <<fatal, written>>
    /\ LayoutIdle
    /\ ResolverIdle
    /\ UNCHANGED outputs

-----------------------------------------------------------------------------
(* Input families.                                                         *)

SectLens == {0, 1, MaxSectLen}
MemLens == {2, MaxMemLen}

\* Start policies of a segment loaded into the memory [start, start + len):
\* an explicit address is inside the memory (eval_segments checks it).
StartPolicies(start, len) ==
    {Unspecified, Align(1), Align(2)}
        \cup {Addr(a) : a \in {start + 1, start + MaxSectLen}
                                \cap (start..(start + len - 1))}

\* Sections of the layout family: a fill run of the section's length.
LayoutSections ==
    {Section(name, sh[1], sh[2],
             IF sh[1] = 0 THEN <<>> ELSE <<FillFrag(sh[1])>>) :
        name \in {"CODE", "DATA"},
        sh \in {<<len, 1>> : len \in SectLens} \cup {<<1, 2>>}}

LayoutObjs ==
    {<<Object(ss, <<Import("x", 2)>>,
              <<Export("x", 2, Literal(as_i64(5)))>>)>> :
        ss \in SeqsUpTo(LayoutSections, MaxSects)}

\* One memory, two segments loaded into it.
LayoutScripts1 ==
    UNION {
        {[outfile_count |-> 1,
          mems |-> <<LinkScriptMemory(32768, len, filled, 255, 0)>>,
          segs |-> <<LinkScriptSegment("CODE", Unspecified, b0, None, 0),
                     LinkScriptSegment("DATA", st, b1, None, 0)>>] :
            filled \in BOOLEAN, b0 \in BOOLEAN, b1 \in BOOLEAN,
            st \in StartPolicies(32768, len)} :
        len \in MemLens}

\* Two memories with one segment each, in one output file or in two.
LayoutScripts2 ==
    {[outfile_count |-> 1 + f1,
      mems |-> <<LinkScriptMemory(32768, len0, filled0, 255, 0),
                 LinkScriptMemory(0, len1, filled1, 0, f1)>>,
      segs |-> <<LinkScriptSegment("CODE", Unspecified, b0, None, 0),
                 LinkScriptSegment("DATA", Unspecified, FALSE, None, 1)>>] :
        len0 \in MemLens, len1 \in MemLens, filled0 \in BOOLEAN,
        filled1 \in BOOLEAN, f1 \in {0, 1}, b0 \in BOOLEAN}

InitRest ==
    /\ pc = "graph"
    /\ fatal = "none"
    /\ graph = NoGraph
    /\ layout = NoLayout
    /\ cur = NoCur
    /\ exports = <<>>
    /\ table = <<>>
    /\ stack = <<>>
    /\ top = [obj_i |-> 0, imp_i |-> 0]
    /\ evals = <<>>
    /\ sym_table = <<>>
    /\ outputs = <<>>
    /\ written = <<>>

InitLayout ==
    /\ script \in LayoutScripts1 \cup LayoutScripts2
    /\ objs \in LayoutObjs
    /\ InitRest

\* The emit family: one output file, one memory of 16 bytes at $8000, the
\* segment CODE alone or CODE followed by DATA.  The linker takes a
\* section's length and its fragments from the object as they are; the
\* family holds sections whose fragments are as long as the section, shorter
\* and longer, and expressions that fit their width and that do not.
EmitSections ==
    {Section("CODE", 6, 1, <<LiteralFrag(<<170, 187, 204, 221>>), FillFrag(2)>>),
     Section("CODE", 3, 1, <<LiteralFrag(<<17>>)>>),
     Section("CODE", 2, 1, <<ExprFrag("ExprU16", Symbol(0))>>),
     Section("CODE", 1, 1, <<LiteralFrag(<<1, 2>>)>>),
     Section("CODE", 4, 1, <<FillFrag(4)>>),
     Section("DATA", 1, 1, <<ExprFrag("ExprU8", Symbol(0))>>),
     Section("DATA", 2, 1, <<FillFrag(2)>>),
     Section("DATA", 3, 1, <<FillFrag(2), LiteralFrag(<<9>>)>>)}

EmitObjs ==
    {<<Object(ss, <<Import("x", 2)>>,
              <<Export("x", 2, Literal(as_i64(4660)))>>)>> :
        ss \in SeqsUpTo(EmitSections, 2) \ {<<>>}}

EmitSegments ==
    {<<LinkScriptSegment("CODE", Unspecified, FALSE, ovr, 0)>> :
        ovr \in {None, Some(238)}}
    \cup
    {<<LinkScriptSegment("CODE", Unspecified, bss0, ovr, 0),
       LinkScriptSegment("DATA", st, FALSE, None, 0)>> :
        bss0 \in BOOLEAN, ovr \in {None, Some(238)},
        st \in {Unspecified, Addr(32772), Addr(32776)}}

EmitScripts ==
    {[outfile_count |-> 1,
      mems |-> <<LinkScriptMemory(32768, 16, filled, fill_byte, 0)>>,
      segs |-> segs] :
        filled \in BOOLEAN, fill_byte \in {0, 255}, segs \in EmitSegments}

InitEmit ==
    /\ script \in EmitScripts
    /\ objs \in EmitObjs
    /\ InitRest

\* The resolve family: two objects, the first with one section in the one
\* segment of the script, the second with an empty section of a predefined
\* segment the script lacks (LinkGraph::new drops it); imports and exports
\* over the names x and y, with address sizes 2 and 1.  A symbol node
\* refers to an import of its object.
ResolveExprs ==
    {Literal(as_i64(5)), Literal(as_i64(7)), Symbol(0), Symbol(1),
     Binary("add", Symbol(0), Symbol(1)), Unary("neg", Symbol(0)),
     NullExpr, SectionRef(0)}

ResolveExports ==
    {Export(n, 2, e) : n \in {"x", "y"}, e \in ResolveExprs}
        \cup {Export("y", 1, Symbol(0))}

ResolveImportTables ==
    SeqsUpTo({Import("x", 2), Import("y", 2)}, 2)
        \cup {<<Import("y", 1)>>, <<Import("x", 2), Import("y", 1)>>}

ResolveExportTables ==
    SeqsUpTo(ResolveExports, 1)
        \cup {<<Export("x", 2, Literal(as_i64(5))), Export(n, 2, e)>> :
                n \in {"x", "y"}, e \in {Literal(as_i64(7)), Symbol(0)}}

RECURSIVE SymbolsOf(_)
SymbolsOf(e) ==
    CASE e.kind = "Symbol" -> {e.import_idx}
      [] e.kind = "Unary" -> SymbolsOf(e.expr)
      [] e.kind = "Binary" -> SymbolsOf(e.lhs) \cup SymbolsOf(e.rhs)
      [] OTHER -> {}

ResolveTables ==
    {t \in ResolveImportTables \X ResolveExportTables :
        \A k \in 1..Len(t[2]) :
            \A i \in SymbolsOf(t[2][k].expr) : i < Len(t[1])}

ResolveObjs ==
    {<<Object(<<Section("CODE", 1, 1, <<FillFrag(1)>>)>>, a[1], a[2]),
       Object(<<Section("BSS", 0, 1, <<>>)>>, b[1], b[2])>> :
        a \in ResolveTables, b \in ResolveTables}

ResolveScript ==
    [outfile_count |-> 1,
     mems |-> <<LinkScriptMemory(32768, 4, FALSE, 0, 0)>>,
     segs |-> <<LinkScriptSegment("CODE", Unspecified, FALSE, None, 0)>>]

InitResolve ==
    /\ script = ResolveScript
    /\ objs \in ResolveObjs
    /\ InitRest

\* The expression family: one section made of one expression fragment, of
\* each of the eight types, whose value is a literal or the negation of a
\* literal around the bounds of the 1, 2, 3 and 4 byte types.
ExprTypes ==
    {"ExprU8", "ExprU16", "ExprU24", "ExprU32",
     "ExprI8", "ExprI16", "ExprI24", "ExprI32"}

HalfPow256(w) ==
    CASE w = 1 -> i64(0, 128)
      [] w = 2 -> i64(0, 32768)
      [] w = 3 -> i64(128, 0)
      [] w = 4 -> i64(32768, 0)

ExprValues ==
    {as_i64(0), as_i64(1)}
        \cup UNION {{i64_sub(HalfPow256(w), as_i64(1)), HalfPow256(w),
                     i64_add(HalfPow256(w), as_i64(1)),
                     i64_sub(Pow256(w), as_i64(1)), Pow256(w)} : w \in 1..4}

ExprExprs ==
    {Literal(v) : v \in ExprValues}
        \cup {Unary("neg", Literal(v)) : v \in ExprValues}

ExprObjs ==
    {<<Object(<<Section("CODE", ExprWidth(ty), 1, <<ExprFrag(ty, e)>>)>>,
              <<Import("x", 2)>>,
              <<Export("x", 2, Literal(as_i64(5)))>>)>> :
        ty \in ExprTypes, e \in ExprExprs}

ExprScript ==
    [outfile_count |-> 1,
     mems |-> <<LinkScriptMemory(32768, 16, FALSE, 0, 0)>>,
     segs |-> <<LinkScriptSegment("CODE", Unspecified, FALSE, None, 0)>>]

InitExpr ==
    /\ script = ExprScript
    /\ objs \in ExprObjs
    /\ InitRest

\* The sharing family: the first object imports a and d and exports b and
\* c, the second imports b and c and exports a and d, so that a, by b + c,
\* can reach d along two ways (a diamond), refer to b twice, or lie on a
\* cycle through b or c; the import of a has the address size of its
\* export or another.
ShareObjs ==
    {<<Object(<<Section("CODE", 1, 1, <<FillFrag(1)>>)>>,
              <<Import("a", sa), Import("d", 2)>>,
              <<Export("b", 2, e1), Export("c", 2, e2)>>),
       Object(<<Section("BSS", 0, 1, <<>>)>>,
              <<Import("b", 2), Import("c", 2)>>,
              <<Export("a", 2, ea), Export("d", 2, ed)>>)>> :
        sa \in {2, 1},
        e1 \in {Symbol(1), Symbol(0), Literal(as_i64(3))},
        e2 \in {Symbol(1), Symbol(0), Literal(as_i64(3))},
        ea \in {Binary("add", Symbol(0), Symbol(1)),
                Binary("add", Symbol(0), Symbol(0)),
                Symbol(0), Literal(as_i64(7))},
        ed \in {Literal(as_i64(5)), Symbol(0), Symbol(1)}}

InitShare ==
    /\ script = ResolveScript
    /\ objs \in ShareObjs
    /\ InitRest

\* The files family: two output files with one memory each, CODE in the
\* first and DATA in the second; one object with a CODE and a DATA section
\* of one fragment each (literal bytes, or a one-byte expression that is a
\* literal in range, a literal out of range, null, or an import), and
\* possibly a third section that names no segment or is aligned; the
\* object imports a name that is exported or one that is not, and its
\* export is a literal or refers to its own import.
FileFrags ==
    {LiteralFrag(<<1, 2>>),
     ExprFrag("ExprU8", Literal(as_i64(5))),
     ExprFrag("ExprU8", Literal(as_i64(256))),
     ExprFrag("ExprU8", NullExpr),
     ExprFrag("ExprU8", Symbol(0))}

FragLen(f) ==
    CASE f.kind = "Literal" -> Len(f.bytes)
      [] f.kind = "Fill" -> f.len
      [] OTHER -> ExprWidth(f.kind)

FileObjs ==
    {<<Object(<<Section("CODE", FragLen(f0), 1, <<f0>>),
                Section("DATA", FragLen(f1), 1, <<f1>>)>> \o third,
              <<Import(n, 2)>>,
              <<Export("x", 2, e)>>)>> :
        f0 \in FileFrags, f1 \in FileFrags,
        third \in {<<>>, <<Section("FOO", 0, 1, <<>>)>>,
                   <<Section("CODE", 1, 2, <<FillFrag(1)>>)>>},
        n \in {"x", "y"},
        e \in {Literal(as_i64(5)), Symbol(0)}}

FileScripts ==
    {[outfile_count |-> 2,
      mems |-> <<LinkScriptMemory(32768, 4, FALSE, 0, 0),
                 LinkScriptMemory(0, 4, filled, 255, 1)>>,
      segs |-> <<LinkScriptSegment("CODE", Unspecified, FALSE, None, 0),
                 LinkScriptSegment("DATA", Unspecified, FALSE, None, 1)>>] :
        filled \in BOOLEAN}

InitFiles ==
    /\ script \in FileScripts
    /\ objs \in FileObjs
    /\ InitRest

\* The section-reference family: the first object has a CODE section with
\* one two-byte expression fragment and a second section that is mapped
\* (DATA) or dropped (an empty BSS section, BSS not being in the script);
\* the fragment and the export x refer to the first or to the second
\* section, bare or inside an operator.  The second object has one section,
\* mapped or dropped, and exports its address as y.
SectRefFragExprs ==
    {SectionRef(0), SectionRef(1), Symbol(0),
     Binary("add", SectionRef(1), Literal(as_i64(1)))}

SectRefExportExprs ==
    {SectionRef(0), SectionRef(1), Literal(as_i64(5)),
     Unary("neg", SectionRef(1))}

SectRefSecond ==
    {Section("DATA", 1, 1, <<FillFrag(1)>>), Section("BSS", 0, 1, <<>>)}

SectRefObjs ==
    {<<Object(<<Section("CODE", 2, 1, <<ExprFrag("ExprU16", fe)>>), s2>>,
              imps,
              <<Export("x", 2, ee)>>),
       Object(<<s3>>, <<>>, <<Export("y", 2, SectionRef(0))>>)>> :
        fe \in SectRefFragExprs, ee \in SectRefExportExprs,
        s2 \in SectRefSecond, s3 \in SectRefSecond,
        imps \in {<<Import("x", 2)>>, <<Import("x", 2), Import("y", 2)>>}}

SectRefScript ==
    [outfile_count |-> 1,
     mems |-> <<LinkScriptMemory(32768, 16, FALSE, 0, 0)>>,
     segs |-> <<LinkScriptSegment("CODE", Unspecified, FALSE, None, 0),
                LinkScriptSegment("DATA", Unspecified, FALSE, None, 0)>>]

InitSectRef ==
    /\ script = SectRefScript
    /\ objs \in SectRefObjs
    /\ InitRest

\* The byte family: one section with a literal byte, one expression
\* fragment of any type over the values of the expression family, and
\* another literal byte.
ByteObjs ==
    {<<Object(<<Section("CODE", ExprWidth(ty) + 2, 1,
                        <<LiteralFrag(<<170>>), ExprFrag(ty, e),
                          LiteralFrag(<<187>>)>>)>>,
              <<Import("x", 2)>>,
              <<Export("x", 2, Literal(as_i64(5)))>>)>> :
        ty \in ExprTypes, e \in ExprExprs}

InitByte ==
    /\ script = ExprScript
    /\ objs \in ByteObjs
    /\ InitRest

\* The graph family: two objects with up to two sections each, named after
\* a segment of the script (CODE, a predefined name, or MYSEG), after a
\* predefined name the script lacks (BSS, DATA) or after no segment at all
\* (FOO), empty or of one byte; the script declares CODE and MYSEG.
GraphSections ==
    {Section(name, len, 1, IF len = 0 THEN <<>> ELSE <<FillFrag(len)>>) :
        name \in {"CODE", "MYSEG", "BSS", "DATA", "FOO"}, len \in {0, 1}}

GraphObjs ==
    {<<Object(a, <<Import("x", 2)>>,
              <<Export("x", 2, Literal(as_i64(5)))>>),
       Object(b, <<>>, <<>>)>> :
        a \in SeqsUpTo(GraphSections, 2), b \in SeqsUpTo(GraphSections, 2)}

GraphScript ==
    [outfile_count |-> 1,
     mems |-> <<LinkScriptMemory(32768, 16, FALSE, 0, 0)>>,
     segs |-> <<LinkScriptSegment("CODE", Unspecified, FALSE, None, 0),
                LinkScriptSegment("MYSEG", Unspecified, FALSE, None, 0)>>]

InitGraph ==
    /\ script = GraphScript
    /\ objs \in GraphObjs
    /\ InitRest

-----------------------------------------------------------------------------
(* The link: main() calls link(), which runs the four stages in order.     *)

Next ==
    \/ LinkGraphNew
    \/ LayoutNew
    \/ LayoutFile
    \/ LayoutMemory
    \/ LayoutSegment
    \/ LayoutSection
    \/ BuildExports
    \/ SolveBuild
    \/ SolveNext
    \/ ResolveStep
    \/ EmitFile
    \/ WriteOutput

SpecLayout == InitLayout /\ [][Next]_vars

SpecEmit == InitEmit /\ [][Next]_vars

SpecResolve == InitResolve /\ [][Next]_vars

SpecExpr == InitExpr /\ [][Next]_vars

SpecGraph == InitGraph /\ [][Next]_vars

SpecShare == InitShare /\ [][Next]_vars

SpecFiles == InitFiles /\ [][Next]_vars

SpecSectRef == InitSectRef /\ [][Next]_vars

SpecByte == InitByte /\ [][Next]_vars

\* The link as the one thread of main runs it: a step that can be taken is
\* taken.
FairShare == InitShare /\ [][Next]_vars /\ WF_vars(Next)

-----------------------------------------------------------------------------
(* Properties of LinkLayout::new.                                          *)

GraphFatals == {"cannot handle segment", "unknown segment"}

LayoutFatals ==
    {"segment overwrites another segment",
     "segment alignment is not supported",
     "section alignment is not supported", "memory overflows"}

\* LinkLayout::new has returned its layout.
LayoutDone ==
    \/ pc \in {"symbols", "solve_build", "solve", "emit", "write", "exit"}
    \/ pc = "fatal" /\ fatal \notin GraphFatals \cup LayoutFatals

MemIdxs == 0..(Len(layout.mems) - 1)
SegIdxs == 0..(Len(layout.segs) - 1)
SectIdxs == 0..(Len(layout.sects) - 1)

SectOutputLens(seg_i) ==
    [k \in 1..Len(At(graph.seg_to_sects, seg_i)) |->
        At(layout.sects, At(graph.seg_to_sects, seg_i)[k]).val.output_len]

SegOutputLens(mem_i) ==
    [k \in 1..Len(At(graph.mem_to_segs, mem_i)) |->
        At(layout.segs, At(graph.mem_to_segs, mem_i)[k]).val.output_len]

\* C1: for every segment that LinkLayout::new has recorded, and so for
\* every segment of a layout it returns, the output lengths of the sections
\* listed for the segment add up to the segment's recorded output length.
C1_SegmentLenIsSumOfSections ==
    \A seg_i \in SegIdxs :
        At(layout.segs, seg_i).some =>
            SumSeq(SectOutputLens(seg_i)) = At(layout.segs, seg_i).val.output_len

\* A returned layout with a segment of two sections that both emit bytes.
C1_Witness ==
    /\ LayoutDone
    /\ \E seg_i \in SegIdxs :
        /\ Len(SectOutputLens(seg_i)) = 2
        /\ \A k \in 1..2 : SectOutputLens(seg_i)[k] > 0

\* C2: the segments of a recorded memory never add up to more than the
\* memory's declared length; while a memory is walked its accumulated
\* output length is at most the declared length unless the walk has just
\* aborted; and the walk aborts with "memory overflows" exactly when the
\* accumulated length is greater than the declared length, so that a length
\* equal to the declared one is accepted.
C2_MemoryNeverOverflows ==
    /\ \A mem_i \in MemIdxs :
        At(layout.mems, mem_i).some =>
            SumSeq(SegOutputLens(mem_i)) <= memory_len(At(script.mems, mem_i))
    /\ pc \in {"lay_seg", "lay_sect"} =>
            cur.layout_mem.output_len <= memory_len(At(script.mems, CurMemIdx))
    /\ fatal = "memory overflows" =>
            cur.layout_mem.output_len > memory_len(At(script.mems, CurMemIdx))

\* A returned layout with a memory that is not filled and whose segments
\* add up to exactly its declared length.
C2_Witness ==
    /\ LayoutDone
    /\ \E mem_i \in MemIdxs :
        /\ ~At(script.mems, mem_i).filled
        /\ SumSeq(SegOutputLens(mem_i)) = memory_len(At(script.mems, mem_i))

\* The starts recorded so far for a memory, in the order of the walk: each
\* segment's start followed by the starts of its sections.
SegStarts(seg_i) ==
    (IF At(layout.segs, seg_i).some
     THEN <<At(layout.segs, seg_i).val.start>> ELSE <<>>)
    \o Flatten([k \in 1..Len(At(graph.seg_to_sects, seg_i)) |->
            LET e == At(layout.sects, At(graph.seg_to_sects, seg_i)[k]) IN
            IF e.some THEN <<e.val.start>> ELSE <<>>])

MemStarts(mem_i) ==
    Flatten([k \in 1..Len(At(graph.mem_to_segs, mem_i)) |->
                SegStarts(At(graph.mem_to_segs, mem_i)[k])])

NonDecreasing(s) == \A i \in 1..Len(s) : \A j \in i..Len(s) : s[i] <= s[j]

\* C3: inside one memory, taking the segments in declaration order and the
\* sections in declaration order inside each segment, every recorded start
\* is at least every start recorded before it, the first is at least the
\* memory's minimum address, and the address cursor of the memory being
\* walked is at least every start recorded for it.
C3_CursorNonDecreasing ==
    /\ \A mem_i \in 0..(Len(graph.mem_to_segs) - 1) :
        layout.segs # <<>> =>
            /\ NonDecreasing(MemStarts(mem_i))
            /\ \A i \in 1..Len(MemStarts(mem_i)) :
                    MemStarts(mem_i)[i] >= memory_start(At(script.mems, mem_i))
    /\ pc \in {"lay_seg", "lay_sect"} =>
            /\ cur.addr >= memory_start(At(script.mems, CurMemIdx))
            /\ \A i \in 1..Len(MemStarts(CurMemIdx)) :
                    MemStarts(CurMemIdx)[i] <= cur.addr

\* A returned layout with a memory whose second segment starts, at an
\* explicit address, strictly above the start of the first segment's
\* section, and holds a section itself.
C3_Witness ==
    /\ LayoutDone
    /\ \E mem_i \in MemIdxs :
        LET segs == At(graph.mem_to_segs, mem_i) IN
        /\ Len(segs) = 2
        /\ At(script.segs, segs[2]).start.kind = "Addr"
        /\ Len(At(graph.seg_to_sects, segs[1])) = 1
        /\ Len(At(graph.seg_to_sects, segs[2])) = 1
        /\ MemStarts(mem_i)[2] < MemStarts(mem_i)[3]

IsBss(seg_i) == At(script.segs, seg_i).bss

RawLen(sect_i) == ObjSectOf(graph, objs, sect_i).len

\* The address just after a recorded section: its start plus its raw length.
SectEnd(sect_i) == At(layout.sects, sect_i).val.start + RawLen(sect_i)

\* The raw lengths of the sections of a segment that is not BSS; nothing for
\* a BSS segment.
SegEmittedLen(seg_i) ==
    IF IsBss(seg_i) THEN 0
    ELSE SumSeq([k \in 1..Len(At(graph.seg_to_sects, seg_i)) |->
                    RawLen(At(graph.seg_to_sects, seg_i)[k])])

MemEmittedLen(mem_i) ==
    SumSeq([k \in 1..Len(At(graph.mem_to_segs, mem_i)) |->
                SegEmittedLen(At(graph.mem_to_segs, mem_i)[k])])

\* C4: a section of a BSS segment is recorded with output length 0, a BSS
\* segment with output length 0, and a memory that is not filled with the
\* raw lengths of its sections outside BSS segments only; the address cursor
\* after a BSS section is the section's start plus its raw length, the next
\* section of the segment starts there, and so does the next segment unless
\* it has an explicit start address, which is then at or after that address.
C4_BssAdvancesCursorOnly ==
    /\ \A sect_i \in SectIdxs :
        At(layout.sects, sect_i).some /\ IsBss(At(graph.sect_to_seg, sect_i))
            => At(layout.sects, sect_i).val.output_len = 0
    /\ \A seg_i \in SegIdxs :
        At(layout.segs, seg_i).some /\ IsBss(seg_i)
            => At(layout.segs, seg_i).val.output_len = 0
    /\ \A mem_i \in MemIdxs :
        At(layout.mems, mem_i).some /\ ~At(script.mems, mem_i).filled
            => At(layout.mems, mem_i).val.output_len = MemEmittedLen(mem_i)
    /\ pc = "lay_sect" /\ cur.sect_k > 0 /\ IsBss(CurSegIdx) =>
            /\ cur.addr = SectEnd(At(CurSects, cur.sect_k - 1))
            /\ cur.layout_seg.output_len = 0
    /\ \A seg_i \in SegIdxs :
        LET sects == At(graph.seg_to_sects, seg_i) IN
        IsBss(seg_i) =>
            \A k \in 1..(Len(sects) - 1) :
                At(layout.sects, sects[k + 1]).some =>
                    At(layout.sects, sects[k + 1]).val.start = SectEnd(sects[k])
    /\ \A mem_i \in MemIdxs :
        LET segs == At(graph.mem_to_segs, mem_i) IN
        \A j \in 1..(Len(segs) - 1) :
            LET sects == At(graph.seg_to_sects, segs[j])
                nxt == At(layout.segs, segs[j + 1])
            IN  IsBss(segs[j]) /\ sects # <<>> /\ nxt.some =>
                    IF At(script.segs, segs[j + 1]).start.kind = "Addr"
                    THEN nxt.val.start >= SectEnd(sects[Len(sects)])
                    ELSE nxt.val.start = SectEnd(sects[Len(sects)])

\* A returned layout where a BSS segment holds two sections of positive raw
\* length and the segment after it, which has no explicit start, holds none
\* and is recorded.
C4_Witness ==
    /\ LayoutDone
    /\ \E mem_i \in MemIdxs :
        LET segs == At(graph.mem_to_segs, mem_i) IN
        /\ Len(segs) = 2
        /\ IsBss(segs[1])
        /\ At(script.segs, segs[2]).start.kind # "Addr"
        /\ Len(At(graph.seg_to_sects, segs[1])) = 2
        /\ \A k \in 1..2 : RawLen(At(graph.seg_to_sects, segs[1])[k]) > 0
        /\ At(layout.segs, segs[2]).val.start
                > memory_start(At(script.mems, mem_i))

\* C5: every recorded memory that is marked filled has the memory's declared
\* length as its output length, whatever its segments hold.
C5_FilledMemoryHasFullLen ==
    \A mem_i \in MemIdxs :
        At(layout.mems, mem_i).some /\ At(script.mems, mem_i).filled
            => At(layout.mems, mem_i).val.output_len
                    = memory_len(At(script.mems, mem_i))

\* A returned layout with a filled memory whose segments emit nothing
\* although one of them, a BSS segment, holds a section of positive length.
C5_Witness ==
    /\ LayoutDone
    /\ \E mem_i \in MemIdxs :
        /\ At(script.mems, mem_i).filled
        /\ SumSeq(SegOutputLens(mem_i)) = 0
        /\ \E sect_i \in SectIdxs :
            /\ At(graph.seg_to_mem, At(graph.sect_to_seg, sect_i)) = mem_i
            /\ RawLen(sect_i) > 0

-----------------------------------------------------------------------------
(* Properties of emit_file.                                                *)

\* The 1-based positions of an emitted buffer that hold a memory, and those
\* that hold a segment of it.
MemPositions(mem_i) ==
    Positions(At(layout.mems, mem_i).val.file_off,
              At(layout.mems, mem_i).val.output_len)

SegPositions(mem_i, seg_i) ==
    Positions(At(layout.mems, mem_i).val.file_off
                + At(layout.segs, seg_i).val.start
                - At(layout.mems, mem_i).val.range.min,
              At(layout.segs, seg_i).val.output_len)

\* The segments of a memory that set a fill byte and whose bytes hold p.
OverridingSegs(mem_i, p) ==
    {k \in 1..Len(At(graph.mem_to_segs, mem_i)) :
        LET seg_i == At(graph.mem_to_segs, mem_i)[k] IN
        /\ At(layout.segs, seg_i).val.fill_byte.some
        /\ p \in SegPositions(mem_i, seg_i)}

ExpectedFill(mem_i, p) ==
    IF OverridingSegs(mem_i, p) = {}
    THEN At(script.mems, mem_i).fill_byte
    ELSE LET k == CHOOSE k \in OverridingSegs(mem_i, p) : TRUE IN
         At(layout.segs, At(graph.mem_to_segs, mem_i)[k]).val.fill_byte.val

FilledMemsOf(file_i) ==
    {m \in 1..Len(At(graph.file_to_mems, file_i)) :
        At(script.mems, At(graph.file_to_mems, file_i)[m]).filled}

\* C6: in every emitted buffer, every byte of a filled memory that no
\* fragment wrote is the override fill byte of the segment whose bytes hold
\* it, when that segment sets one, and the memory's fill byte otherwise.
C6_UnwrittenBytesAreFill ==
    \A n \in 1..Len(outputs) :
        \A m \in FilledMemsOf(outputs[n].file_i) :
            LET mem_i == At(graph.file_to_mems, outputs[n].file_i)[m] IN
            \A p \in MemPositions(mem_i) \ outputs[n].frag :
                outputs[n].body[p] = ExpectedFill(mem_i, p)

\* An emitted buffer of a filled memory whose fill byte is not 0, with a
\* byte no fragment wrote inside a segment that sets a fill byte and another
\* outside every segment.
C6_Witness ==
    \E n \in 1..Len(outputs) :
        \E m \in FilledMemsOf(outputs[n].file_i) :
            LET mem_i == At(graph.file_to_mems, outputs[n].file_i)[m] IN
            /\ At(script.mems, mem_i).fill_byte # 0
            /\ \E p \in MemPositions(mem_i) \ outputs[n].frag :
                    OverridingSegs(mem_i, p) # {}
            /\ \E p \in MemPositions(mem_i) \ outputs[n].frag :
                    /\ OverridingSegs(mem_i, p) = {}
                    /\ outputs[n].body[p] = At(script.mems, mem_i).fill_byte

\* The scenario: one output file, one memory at $8000 of length $10, one
\* segment that is not BSS and sets no fill byte, one object with one
\* section, the literal bytes AA BB CC DD followed by a fill run of 2 bytes.
ScenarioInput(filled, fill_byte) ==
    /\ script.outfile_count = 1
    /\ script.mems = <<LinkScriptMemory(32768, 16, filled, fill_byte, 0)>>
    /\ script.segs = <<LinkScriptSegment("CODE", Unspecified, FALSE, None, 0)>>
    /\ Len(objs) = 1
    /\ objs[1].sections =
        <<Section("CODE", 6, 1,
                  <<LiteralFrag(<<170, 187, 204, 221>>), FillFrag(2)>>)>>

ScenarioHead == <<170, 187, 204, 221, 0, 0>>

\* C10 as the scenario states it: with the memory not filled and fill byte
\* 0, the emitted buffer is $10 bytes long, begins AA BB CC DD 00 00 and
\* holds the memory's fill byte from byte 6 on.
C10_AsStated ==
    ScenarioInput(FALSE, 0) /\ Len(outputs) = 1 =>
        /\ Len(outputs[1].body) = 16
        /\ SubSeq(outputs[1].body, 1, 6) = ScenarioHead
        /\ \A i \in 7..16 : outputs[1].body[i] = 0

\* C10: in the scenario with the memory not filled and fill byte 0, the
\* emitted buffer is the 6 bytes AA BB CC DD 00 00 and no more; with the
\* memory filled and fill byte b it is $10 bytes long, begins AA BB CC DD
\* and holds b from byte 4 on (the fill run takes the memory's fill byte).
C10_ScenarioBuffer ==
    /\ ScenarioInput(FALSE, 0) /\ Len(outputs) = 1 =>
            outputs[1].body = ScenarioHead
    /\ \A b \in {0, 255} :
        ScenarioInput(TRUE, b) /\ Len(outputs) = 1 =>
            /\ Len(outputs[1].body) = 16
            /\ SubSeq(outputs[1].body, 1, 4) = SubSeq(ScenarioHead, 1, 4)
            /\ \A i \in 5..16 : outputs[1].body[i] = b

\* The scenario with the memory not filled, its buffer emitted and written.
C10_Witness ==
    /\ ScenarioInput(FALSE, 0)
    /\ Len(outputs) = 1
    /\ written = <<outputs[1].body>>

-----------------------------------------------------------------------------
(* Properties of SymbolTable::new.                                         *)

\* build_exports has returned or has aborted.
ExportsBuilt == LayoutDone /\ pc # "symbols"

SlotIds ==
    {<<i - 1, k - 1>> : i \in 1..Len(objs), k \in 1..2}
        \cap {s \in (0..1) \X (0..1) : s[2] < Len(At(objs, s[1]).imports)}

\* The export an import names (the table being built, every import has one).
BoundExport(s) ==
    At(exports,
       get_index_of(exports, At(At(objs, s[1]).imports, s[2]).name).val)

\* C7: an import slot whose name is exported as a bare literal v is never
\* resolved to anything but v, in the resolver's table and in the symbol
\* table made of it, wherever the slot lies and whoever reached it first.
C7_LiteralExportResolvesToLiteral ==
    table # <<>> =>
        \A s \in SlotIds :
            BoundExport(s).expr.kind = "Literal" =>
                /\ Slot(table, s[1], s[2]).state.tag = "Done" =>
                        Slot(table, s[1], s[2]).state.value
                            = BoundExport(s).expr.value
                /\ sym_table # <<>> =>
                        Slot(sym_table, s[1], s[2]).value
                            = BoundExport(s).expr.value

\* Inside another export's expression the resolver has resolved a slot that
\* names a literal export before the top-level loop reached that slot, and
\* a slot of the other object names the same export.
C7_Witness ==
    /\ stack # <<>>
    /\ \E s \in SlotIds : \E t \in SlotIds :
        /\ BoundExport(s).expr.kind = "Literal"
        /\ Slot(table, s[1], s[2]).state.tag = "Done"
        /\ s[1] > top.obj_i \/ (s[1] = top.obj_i /\ s[2] >= top.imp_i)
        /\ t[1] # s[1]
        /\ BoundExport(t) = BoundExport(s)

\* The slots the expression of a slot's export refers to, and the slots
\* reached from a set of slots along such references.
Deps(s) ==
    {<<BoundExport(s).obj_i, i>> : i \in SymbolsOf(BoundExport(s).expr)}

RECURSIVE Closure(_)
Closure(S) ==
    LET T == S \cup UNION {Deps(s) : s \in S} IN
    IF T = S THEN S ELSE Closure(T)

OnCycle(s) == s \in Closure(Deps(s))

HasCycle == \E s \in SlotIds : OnCycle(s)

StackSlots == [n \in 1..Len(stack) |-> <<stack[n].obj_i, stack[n].imp_i>>]

\* Every import has the address size of its export, and every export the
\* address size of the imports its expression refers to.
SizesAgree ==
    /\ \A s \in SlotIds :
        At(At(objs, s[1]).imports, s[2]).addr_size = BoundExport(s).addr_size
    /\ \A n \in 1..Len(exports) :
        \A i \in SymbolsOf(exports[n].expr) :
            At(At(objs, exports[n].obj_i).imports, i).addr_size
                = exports[n].addr_size

\* No export is a null expression or refers to a section LinkGraph dropped.
ExprsSound ==
    \A n \in 1..Len(exports) :
        /\ exports[n].expr.kind # "Null"
        /\ exports[n].expr.kind = "Section" =>
            At(At(graph.obj_sect_to_sect, exports[n].obj_i),
               exports[n].expr.section_idx).some

\* C8 as the claim states it: the first import of the first object being on
\* a cycle of references, the link that aborts aborts with the
\* circular-reference error.
C8_AsStated ==
    table # <<>> /\ pc = "fatal" =>
        \A s \in SlotIds \cap {<<0, 0>>} :
            OnCycle(s) => fatal = "circular reference"

\* C8: with two objects, an import slot that lies on a cycle of references
\* is never resolved and the link never gets past symbol resolution: it
\* aborts, with the circular-reference error when the address sizes on the
\* way agree and no expression met is null or refers to a dropped section,
\* and otherwise with that error or the error of one of those; the chain of
\* activations never holds a slot twice, every slot on it is marked
\* Resolving, and no slot's export is evaluated twice.
C8_CycleAborts ==
    /\ table # <<>> =>
        /\ \A s \in SlotIds :
            OnCycle(s) => Slot(table, s[1], s[2]).state.tag # "Done"
        /\ HasCycle => pc \in {"solve", "fatal"}
        /\ HasCycle /\ pc = "fatal" =>
            fatal \in {"circular reference", "address size mismatch",
                       "address size mismatch for symbol", "expr is null",
                       "invalid section expr"}
        /\ HasCycle /\ SizesAgree /\ ExprsSound /\ pc = "fatal" =>
            fatal = "circular reference"
    /\ \A n \in 1..Len(stack) : \A m \in 1..Len(stack) :
        StackSlots[n] = StackSlots[m] => n = m
    /\ \A n \in 1..Len(stack) :
        Slot(table, stack[n].obj_i, stack[n].imp_i).state.tag = "Resolving"
    /\ \A i \in 1..Len(evals) : \A k \in 1..Len(evals[i]) : evals[i][k] <= 1

\* The link has aborted with the circular-reference error on a cycle that
\* leads from an import of the first object through the second object back.
C8_Witness ==
    /\ fatal = "circular reference"
    /\ Len(stack) >= 2
    /\ \E s \in SlotIds : \E t \in SlotIds :
        /\ s[1] = 0
        /\ t[1] = 1
        /\ OnCycle(s)
        /\ t \in Closure(Deps(s))
        /\ s \in Closure(Deps(t))

ExportNames(o) ==
    Flatten([i \in 1..Len(o) |->
                [k \in 1..Len(o[i].exports) |-> o[i].exports[k].name]])

DuplicateNames(o) ==
    \E a \in 1..Len(ExportNames(o)) : \E b \in 1..Len(ExportNames(o)) :
        a # b /\ ExportNames(o)[a] = ExportNames(o)[b]

Reverse(o) == [i \in 1..Len(o) |-> o[Len(o) + 1 - i]]

\* C9: once build_exports has run, the link has aborted with the
\* duplicate-export error exactly when two exports of the input, of one
\* object or of two, carry the same name; and build_exports aborts on the
\* objects taken in the reverse order exactly when it does on them as given.
C9_DuplicateExportIsFatal ==
    /\ ExportsBuilt => (fatal = "duplicate export" <=> DuplicateNames(objs))
    /\ build_exports(Reverse(objs)).fatal = build_exports(objs).fatal

\* The link has aborted with the duplicate-export error on two objects that
\* each export a name once and export the same name.
C9_Witness ==
    /\ fatal = "duplicate export"
    /\ Len(objs) = 2
    /\ \A i \in 1..2 : Len(objs[i].exports) = 1
    /\ objs[1].exports[1].name = objs[2].exports[1].name

-----------------------------------------------------------------------------
(* Properties of expression fragments.                                     *)

\* The one fragment of the one section of the expression family, and the
\* value of its expression.
TheFrag == objs[1].sections[1].fragments[1]

TheValue ==
    IF TheFrag.expr.kind = "Literal" THEN TheFrag.expr.value
    ELSE i64_neg(TheFrag.expr.expr.value)

i64_lt(a, b) == ~i64_le(b, a)

\* 0 <= v < 256^w for an unsigned type of w bytes, -256^w/2 <= v < 256^w/2
\* for a signed one.
InTypeRange(ty, v) ==
    LET w == ExprWidth(ty)
        u == IF ty \in {"ExprU8", "ExprU16", "ExprU24", "ExprU32"}
             THEN v ELSE i64_add(v, HalfPow256(w))
    IN  i64_le(as_i64(0), u) /\ i64_lt(u, Pow256(w))

\* C11: a buffer is emitted only when the value of the expression fragment
\* lies in the range of the fragment's type; once the emitter has run, the
\* link has aborted with the overflow error exactly when the value lies
\* outside that range, and then no buffer was emitted or written.
C11_ExprValueMustFit ==
    /\ outputs # <<>> => InTypeRange(TheFrag.kind, TheValue)
    /\ pc \in {"write", "exit"} \/ (pc = "fatal" /\ sym_table # <<>>) =>
        (fatal = "expr value overflow"
            <=> ~InTypeRange(TheFrag.kind, TheValue))
    /\ fatal = "expr value overflow" => outputs = <<>> /\ written = <<>>

\* The link has aborted with the overflow error on a 2-byte unsigned
\* fragment of value $10000.
C11_Witness ==
    /\ fatal = "expr value overflow"
    /\ TheFrag.kind = "ExprU16"
    /\ TheValue = i64(1, 0)

-----------------------------------------------------------------------------
(* Properties of a BSS segment followed by a segment with an explicit      *)
(* start.                                                                  *)

\* The scenario: in one memory at $8000, a BSS segment holding one section
\* of length 4, then a segment that is not BSS, starts at the explicit
\* address $8004 and holds one section of 2 fill bytes.
BssThenExplicitInput ==
    /\ Len(script.mems) = 1
    /\ memory_start(script.mems[1]) = 32768
    /\ Len(script.segs) = 2
    /\ script.segs[1].bss
    /\ script.segs[1].start = Unspecified
    /\ ~script.segs[2].bss
    /\ script.segs[2].start = Addr(32772)
    /\ Len(objs) = 1
    /\ objs[1].sections =
        <<Section(script.segs[1].name, 4, 1, <<FillFrag(4)>>),
          Section(script.segs[2].name, 2, 1, <<FillFrag(2)>>)>>

\* C12 as the claim states it: the link of the scenario does not abort, if
\* not on a file it cannot write, and the second section starts at $8004.
C12_AsStated ==
    BssThenExplicitInput =>
        /\ fatal \in {"none", "cannot write output file"}
        /\ LayoutDone => At(layout.sects, 1).val.start = 32772

-----------------------------------------------------------------------------
(* Properties of LinkGraph::new.                                           *)

\* LinkGraph::new has returned its graph.
GraphDone == pc # "graph" /\ fatal \notin GraphFatals

DeclaredNames == {script.segs[g].name : g \in 1..Len(script.segs)}

\* The sections of the input in the order of the input, objects first, as
\* pairs (object, local section), and those of them that name a segment of
\* the script.
AllObjSects ==
    Flatten([i \in 1..Len(objs) |->
                [k \in 1..Len(objs[i].sections) |-> <<i - 1, k - 1>>]])

IsDeclared(os) ==
    At(At(objs, os[1]).sections, os[2]).seg_name \in DeclaredNames

MappedObjSects == SelectSeq(AllObjSects, IsDeclared)

\* C13: in the graph LinkGraph::new returns, the section identities are
\* 0..N-1 for the N sections that name a segment of the script, given in
\* the order of the input (objects first, then local sections); a section
\* that was dropped has no identity; and obj_sect_to_sect and
\* sect_to_obj_sect are inverse to each other on the mapped sections.
C13_SectionIdsContiguousInOrder ==
    GraphDone =>
        /\ graph.sect_to_obj_sect = MappedObjSects
        /\ Len(graph.sect_to_seg) = Len(MappedObjSects)
        /\ \A n \in 1..Len(AllObjSects) :
            LET os == AllObjSects[n]
                e == At(At(graph.obj_sect_to_sect, os[1]), os[2])
            IN  /\ e.some <=> IsDeclared(os)
                /\ e.some =>
                    /\ e.val \in 0..(Len(MappedObjSects) - 1)
                    /\ At(graph.sect_to_obj_sect, e.val) = os
        /\ \A id \in 0..(Len(graph.sect_to_obj_sect) - 1) :
            LET os == At(graph.sect_to_obj_sect, id) IN
            At(At(graph.obj_sect_to_sect, os[1]), os[2]) = Some(id)
        /\ \A i \in 1..Len(objs) :
            \A a \in 1..Len(graph.obj_to_sects[i]) :
                \A b \in 1..Len(graph.obj_to_sects[i]) :
                    a < b => graph.obj_to_sects[i][a] < graph.obj_to_sects[i][b]

\* A returned graph in which the first object has a dropped section before
\* a mapped one and the second object has two mapped sections.
C13_Witness ==
    /\ GraphDone
    /\ Len(objs[1].sections) = 2
    /\ ~IsDeclared(<<0, 0>>)
    /\ IsDeclared(<<0, 1>>)
    /\ Len(objs[2].sections) = 2
    /\ IsDeclared(<<1, 0>>)
    /\ IsDeclared(<<1, 1>>)
    /\ Len(graph.sect_to_obj_sect) = 3

\* The first section, in the order of the input, that names no segment of
\* the script and is not an empty section of a predefined name.
Offending(os) ==
    LET sect == At(At(objs, os[1]).sections, os[2]) IN
    /\ ~IsDeclared(os)
    /\ sect.seg_name \notin {"BSS", "CODE", "DATA", "NULL", "RODATA",
                             "ZEROPAGE"}
        \/ sect.len # 0

OffendingObjSects == SelectSeq(AllObjSects, Offending)

\* C14: LinkGraph::new aborts exactly when some section names no segment of
\* the script and is not an empty section of one of the six predefined
\* names; the first such section decides the error, "unknown segment" for
\* another name (empty or not) and "cannot handle segment" for a non-empty
\* section of a predefined name.  Otherwise the link goes on, and every
\* section that names no segment of the script has no identity and belongs
\* to no segment and to no object's list.
C14_UndeclaredSegmentNames ==
    pc # "graph" =>
        /\ fatal \in GraphFatals <=> OffendingObjSects # <<>>
        /\ OffendingObjSects # <<>> =>
            LET os == OffendingObjSects[1]
                sect == At(At(objs, os[1]).sections, os[2])
            IN  fatal = IF sect.seg_name \in {"BSS", "CODE", "DATA", "NULL",
                                              "RODATA", "ZEROPAGE"}
                        THEN "cannot handle segment"
                        ELSE "unknown segment"
        /\ OffendingObjSects = <<>> =>
            \A n \in 1..Len(AllObjSects) :
                LET os == AllObjSects[n] IN
                ~IsDeclared(os) =>
                    /\ At(At(graph.obj_sect_to_sect, os[1]), os[2]) = None
                    /\ \A id \in 1..Len(graph.sect_to_obj_sect) :
                            graph.sect_to_obj_sect[id] # os
                    /\ Len(Flatten(graph.seg_to_sects))
                            = Len(MappedObjSects)
                    /\ Len(Flatten(graph.obj_to_sects))
                            = Len(MappedObjSects)

\* A link that went on to its end with an empty BSS section and an empty
\* DATA section dropped and a section mapped.
C14_Witness ==
    /\ pc = "exit"
    /\ \E n \in 1..Len(AllObjSects) : \E m \in 1..Len(AllObjSects) :
        /\ At(At(objs, AllObjSects[n][1]).sections,
              AllObjSects[n][2]).seg_name = "BSS"
        /\ At(At(objs, AllObjSects[m][1]).sections,
              AllObjSects[m][2]).seg_name = "DATA"
    /\ MappedObjSects # <<>>

-----------------------------------------------------------------------------
(* Properties of the start policies and of alignment.                      *)

\* The walk is at the header of a segment of the memory being laid out.
AtSegmentHeader == pc = "lay_seg" /\ cur.seg_k < Len(CurSegs)

\* The sections recorded for the segments that precede the k-th (0-based)
\* segment of a memory.
SectsBefore(mem_i, k) ==
    {sect_i \in SectIdxs :
        /\ At(layout.sects, sect_i).some
        /\ \E j \in 0..(k - 1) :
            At(graph.sect_to_seg, sect_i) = At(At(graph.mem_to_segs, mem_i), j)}

\* A step from the header of a segment with an explicit start S: accepted,
\* with the cursor and the segment's start set to S, exactly when S is at
\* least the cursor; otherwise the overlap error.
ExplicitStartStep ==
    AtSegmentHeader /\ At(script.segs, CurSegIdx).start.kind = "Addr" =>
        LET S == At(script.segs, CurSegIdx).start.val IN
        IF S >= cur.addr
        THEN /\ pc' = "lay_sect"
             /\ fatal' = "none"
             /\ cur'.addr = S
             /\ cur'.layout_seg.start = S
        ELSE /\ pc' = "fatal"
             /\ fatal' = "segment overwrites another segment"
             /\ layout' = layout

\* No recorded segment starts below the end of a section placed before it
\* in the same memory.
NoStartBelowEarlierEnd ==
    layout.segs # <<>> =>
        \A mem_i \in 0..(Len(graph.mem_to_segs) - 1) :
            \A k \in 0..(Len(At(graph.mem_to_segs, mem_i)) - 1) :
                LET seg == At(layout.segs, At(At(graph.mem_to_segs, mem_i), k))
                IN  seg.some =>
                        \A sect_i \in SectsBefore(mem_i, k) :
                            SectEnd(sect_i) <= seg.val.start

\* C15: a segment's explicit start address S is accepted exactly when S is
\* at least the cursor, equality included, and the cursor becomes S; a
\* smaller S aborts with the overlap error; and no segment starts below the
\* end of the sections placed before it in the same memory.
C15_ExplicitStartNeverBelowCursor ==
    [][ExplicitStartStep]_vars /\ []NoStartBelowEarlierEnd

\* The second segment's explicit start, equal to the end of the section of
\* MaxSectLen bytes placed before it, has just been accepted.
C15_Witness ==
    /\ pc = "lay_sect"
    /\ cur.seg_k = 1
    /\ cur.sect_k = 0
    /\ At(script.segs, CurSegIdx).start = Addr(cur.addr)
    /\ cur.layout_seg.start = cur.addr
    /\ \E sect_i \in SectsBefore(CurMemIdx, 1) :
        RawLen(sect_i) = MaxSectLen /\ SectEnd(sect_i) = cur.addr

\* A step from the header of a segment with an alignment: the alignment
\* error unless it is 1, and then the cursor is left as it is.
SegmentAlignStep ==
    AtSegmentHeader /\ At(script.segs, CurSegIdx).start.kind = "Align" =>
        IF At(script.segs, CurSegIdx).start.val = 1
        THEN /\ pc' = "lay_sect"
             /\ fatal' = "none"
             /\ cur'.addr = cur.addr
             /\ cur'.layout_seg.start = cur.addr
        ELSE /\ pc' = "fatal"
             /\ fatal' = "segment alignment is not supported"
             /\ layout' = layout

\* A step from a section whose alignment is not 1: the alignment error, and
\* the section is not placed.
SectionAlignStep ==
    /\ pc = "lay_sect"
    /\ cur.sect_k < Len(CurSects)
    /\ ObjSectOf(graph, objs, CurSectIdx).align # 1
    => /\ pc' = "fatal"
       /\ fatal' = "section alignment is not supported"
       /\ layout' = layout

\* In a returned layout every segment's alignment, if it has one, is 1, and
\* so is every section's.
OnlyAlignOne ==
    LayoutDone =>
        /\ \A seg_i \in SegIdxs :
            At(script.segs, seg_i).start.kind = "Align" =>
                At(script.segs, seg_i).start.val = 1
        /\ \A sect_i \in SectIdxs :
            ObjSectOf(graph, objs, sect_i).align = 1

\* C16: an alignment other than 1 is an error and never rounds an address:
\* a segment with Align(a), a # 1, aborts the link, a section whose
\* alignment is not 1 aborts the link, and Align(1) leaves the cursor as it
\* is.
C16_AlignmentOtherThanOneIsFatal ==
    /\ [][SegmentAlignStep]_vars
    /\ [][SectionAlignStep]_vars
    /\ []OnlyAlignOne

\* The link has aborted on Align(2) of the second segment with the cursor
\* at an odd address, which a rounding linker would have moved.
C16_Witness ==
    /\ pc = "fatal"
    /\ fatal = "segment alignment is not supported"
    /\ cur.seg_k = 1
    /\ At(script.segs, CurSegIdx).start = Align(2)
    /\ cur.addr % 2 = 1

-----------------------------------------------------------------------------
(* Properties of Resolver::solve: the build phase, the address sizes and   *)
(* the memo.                                                               *)

ExportNameSet == {ExportNames(objs)[n] : n \in 1..Len(ExportNames(objs))}

ImportOf(s) == At(At(objs, s[1]).imports, s[2])

Unexported(s) == ImportOf(s).name \notin ExportNameSet

\* The step of the build phase when some import names no export: the
\* error, with no table built and nothing evaluated.
BuildPhaseStep ==
    pc = "solve_build" /\ (\E s \in SlotIds : Unexported(s)) =>
        /\ pc' = "fatal"
        /\ fatal' = "symbol is not exported"
        /\ table' = <<>>
        /\ evals' = <<>>
        /\ stack' = <<>>
        /\ sym_table' = <<>>

\* The resolver has a table, or the link is past the build phase, only if
\* every import names an export; the error of the build phase is raised
\* only for an import that names none, and with no import resolved.
BuildPhaseState ==
    /\ table # <<>> \/ pc \in {"solve", "emit", "write", "exit"} =>
        \A s \in SlotIds : ~Unexported(s)
    /\ fatal = "symbol is not exported" =>
        /\ \E s \in SlotIds : Unexported(s)
        /\ table = <<>>
        /\ evals = <<>>
        /\ stack = <<>>
        /\ sym_table = <<>>

\* C17: when the resolver's build phase runs on an input in which some
\* import, referenced or not, names no export, the link aborts in that
\* phase with no import resolved; so the resolver never resolves anything
\* unless every import of every object names an export.
C17_UnexportedImportAbortsBuildPhase ==
    [][BuildPhaseStep]_vars /\ []BuildPhaseState

\* The link has aborted in the build phase on an import that no export
\* expression refers to, after an import of the same object that names an
\* export.
C17_Witness ==
    /\ fatal = "symbol is not exported"
    /\ Len(objs[1].imports) = 2
    /\ ~Unexported(<<0, 0>>)
    /\ Unexported(<<0, 1>>)
    /\ \A n \in 1..Len(exports) :
        exports[n].obj_i = 0 => 1 \notin SymbolsOf(exports[n].expr)

\* The top-level loop is about to request the slot `top` points at.
AtTopRequest ==
    /\ pc = "solve"
    /\ stack = <<>>
    /\ top.obj_i < Len(objs)
    /\ top.imp_i < Len(At(table, top.obj_i))

\* The innermost activation is about to visit a symbol node.
AtSymbolNode ==
    /\ pc = "solve"
    /\ stack # <<>>
    /\ stack[Len(stack)].ip <= Len(stack[Len(stack)].code)
    /\ stack[Len(stack)].code[stack[Len(stack)].ip].kind = "Symbol"

\* The export being evaluated at a symbol node and the slot the node
\* refers to.
NodeExport == At(exports, stack[Len(stack)].export_i)

NodeSlot ==
    <<NodeExport.obj_i,
      stack[Len(stack)].code[stack[Len(stack)].ip].import_idx>>

SlotState(s) == Slot(table, s[1], s[2]).state

\* A request of the top-level loop for an unresolved slot whose import and
\* export differ in address size aborts with the mismatch error.
TopSizeStep ==
    /\ AtTopRequest
    /\ SlotState(<<top.obj_i, top.imp_i>>).tag = "Unresolved"
    /\ ImportOf(<<top.obj_i, top.imp_i>>).addr_size
            # BoundExport(<<top.obj_i, top.imp_i>>).addr_size
    => /\ pc' = "fatal"
       /\ fatal' = "address size mismatch for symbol"

\* A symbol node: the slot's address size is checked against the export
\* being evaluated, then, the slot being unresolved, against the export
\* the slot is bound to.
SymbolSizeStep ==
    AtSymbolNode =>
        IF ImportOf(NodeSlot).addr_size # NodeExport.addr_size
        THEN /\ pc' = "fatal"
             /\ fatal' = "address size mismatch"
             /\ table' = table
        ELSE /\ SlotState(NodeSlot).tag = "Unresolved"
             /\ ImportOf(NodeSlot).addr_size
                    # BoundExport(NodeSlot).addr_size
             => /\ pc' = "fatal"
                /\ fatal' = "address size mismatch for symbol"

\* In a finished symbol table every import has the address size of its
\* export, and so has every import that export's expression refers to.
ResolvedSizesAgree ==
    sym_table # <<>> =>
        \A s \in SlotIds :
            /\ ImportOf(s).addr_size = BoundExport(s).addr_size
            /\ \A t \in Deps(s) :
                ImportOf(t).addr_size = BoundExport(s).addr_size

\* C18: resolving an import whose address size differs from that of the
\* export it is bound to aborts with the address-size-mismatch error, and
\* so does a symbol node of an export's expression that refers to an import
\* slot whose address size differs from that of the export being
\* evaluated; no symbol table is finished with such a difference in it.
C18_AddressSizeMismatchIsFatal ==
    /\ [][TopSizeStep]_vars
    /\ [][SymbolSizeStep]_vars
    /\ []ResolvedSizesAgree

\* The link has aborted at a symbol node of an export whose own import
\* passed the check of resolve_import.
C18_Witness ==
    /\ pc = "fatal"
    /\ fatal = "address size mismatch"
    /\ stack # <<>>
    /\ ImportOf(NodeSlot).addr_size # NodeExport.addr_size
    /\ ImportOf(<<stack[1].obj_i, stack[1].imp_i>>).addr_size
            = At(exports, stack[1].export_i).addr_size

\* A request of the top-level loop for a slot that is Done changes neither
\* the table nor the count of evaluations and starts no evaluation.
DoneRequestTop ==
    AtTopRequest /\ SlotState(<<top.obj_i, top.imp_i>>).tag = "Done" =>
        /\ table' = table
        /\ evals' = evals
        /\ stack' = <<>>
        /\ pc' = "solve"

\* A request from a symbol node for a slot that is Done pushes the stored
\* value, changes neither the table nor the count of evaluations and
\* starts no evaluation.
DoneRequestSymbol ==
    /\ AtSymbolNode
    /\ ImportOf(NodeSlot).addr_size = NodeExport.addr_size
    /\ SlotState(NodeSlot).tag = "Done"
    => /\ table' = table
       /\ evals' = evals
       /\ Len(stack') = Len(stack)
       /\ stack'[Len(stack)].vals
            = Append(stack[Len(stack)].vals, SlotState(NodeSlot).value)
       /\ pc' = "solve"

\* A slot that is Done stays Done with its value.
DoneStays ==
    table # <<>> =>
        \A s \in SlotIds :
            SlotState(s).tag = "Done" =>
                Slot(table', s[1], s[2]).state = SlotState(s)

\* No slot's export has been evaluated more than once.
EvaluatedAtMostOnce ==
    \A i \in 1..Len(evals) : \A k \in 1..Len(evals[i]) : evals[i][k] <= 1

\* C19: in one run of the resolver the expression of the export bound to a
\* slot is evaluated at most once; a slot that is Done stays Done, and
\* every later request for it, from the top-level loop or from a symbol
\* node, returns the stored value without evaluating anything.
C19_SlotEvaluatedAtMostOnce ==
    /\ [][DoneRequestTop]_vars
    /\ [][DoneRequestSymbol]_vars
    /\ [][DoneStays]_vars
    /\ []EvaluatedAtMostOnce

\* The innermost activation has just taken, from a symbol node, the stored
\* value of a slot that the top-level loop had resolved before.
C19_Witness ==
    /\ pc = "solve"
    /\ stack # <<>>
    /\ LET f == stack[Len(stack)] IN
       /\ f.ip > 1
       /\ f.code[f.ip - 1].kind = "Symbol"
       /\ LET t == <<At(exports, f.export_i).obj_i,
                     f.code[f.ip - 1].import_idx>>
          IN  /\ t[1] < top.obj_i \/ (t[1] = top.obj_i /\ t[2] < top.imp_i - 1)
              /\ SlotState(t).tag = "Done"
              /\ evals[t[1] + 1][t[2] + 1] = 1
              /\ f.vals # <<>>
              /\ f.vals[Len(f.vals)] = SlotState(t).value

-----------------------------------------------------------------------------
(* Properties of the cycle detection.                                      *)

\* The resolver has run to its end or to its abort.
ResolverEnded == sym_table # <<>> \/ (pc = "fatal" /\ table # <<>>)

\* C20 as the claim states it: the resolver having run, it has aborted
\* with the circular-reference error exactly when some import slot lies on
\* a cycle of references.
C20_AsStated ==
    ResolverEnded => (fatal = "circular reference" <=> HasCycle)

\* A request for a slot that is Done never raises the circular-reference
\* error.
SharedSlotStep ==
    \/ AtTopRequest /\ SlotState(<<top.obj_i, top.imp_i>>).tag = "Done"
    \/ AtSymbolNode /\ SlotState(NodeSlot).tag = "Done"
    => fatal' # "circular reference"

\* The circular-reference error is raised only when a slot lies on a cycle;
\* when one does, the resolver never finishes a symbol table, and its
\* abort is the circular-reference error unless an address-size mismatch,
\* a null expression or a reference to a dropped section is met first.
CycleErrorOnlyOnCycle ==
    /\ fatal = "circular reference" => HasCycle
    /\ table # <<>> /\ HasCycle =>
        /\ sym_table = <<>>
        /\ pc \in {"solve", "fatal"}
        /\ pc = "fatal" =>
            fatal \in {"circular reference", "address size mismatch",
                       "address size mismatch for symbol", "expr is null",
                       "invalid section expr"}
        /\ pc = "fatal" /\ SizesAgree /\ ExprsSound =>
            fatal = "circular reference"

\* C20: the resolver aborts with the circular-reference error only if the
\* slot-reference graph has a cycle; if it has one the resolver always
\* aborts, with that error when the address sizes agree and no expression
\* is null or refers to a dropped section; and a request for a finished
\* slot (a slot shared by several dependants, or referred to twice in one
\* expression) never raises the error.
C20_CycleDetectionExact ==
    [][SharedSlotStep]_vars /\ []CycleErrorOnlyOnCycle

\* A finished symbol table for a diamond: a refers to b and c, and b and c
\* both refer to d.
C20_Witness ==
    /\ sym_table # <<>>
    /\ Deps(<<0, 0>>) = {<<1, 0>>, <<1, 1>>}
    /\ Deps(<<1, 0>>) = {<<0, 1>>}
    /\ Deps(<<1, 1>>) = {<<0, 1>>}
    /\ Deps(<<0, 1>>) = {}

-----------------------------------------------------------------------------
(* Properties of the end of Resolver::solve.                               *)

\* The resolving loop has passed the last slot and the conversion of the
\* table is about to run.
AtConversion == pc = "solve" /\ stack = <<>> /\ top.obj_i >= Len(objs)

\* At the conversion every slot is Done, and the symbol table made by it
\* has one entry per import slot, with the slot's address size and value.
EverySlotDone ==
    /\ AtConversion \/ sym_table # <<>> =>
        \A s \in SlotIds : SlotState(s).tag = "Done"
    /\ sym_table # <<>> =>
        /\ Len(sym_table) = Len(objs)
        /\ \A i \in 1..Len(objs) :
            Len(sym_table[i]) = Len(objs[i].imports)
        /\ \A s \in SlotIds :
            Slot(sym_table, s[1], s[2])
                = [addr_size |-> ImportOf(s).addr_size,
                   value |-> SlotState(s).value]
    /\ fatal # "unreachable"

\* C21: the resolver terminates, with a fatal error or with its symbol
\* table; when it reaches the conversion every import slot of every object
\* is Done, the symbol table holds the value of every slot, and the
\* unreachable!() of the conversion is never reached.
C21_ResolverTerminatesAllDone ==
    /\ []EverySlotDone
    /\ (pc = "solve_build" ~> pc \in {"emit", "fatal"})

\* A symbol table for two objects with two import slots each, three of
\* them resolved through others.
C21_Witness ==
    /\ sym_table # <<>>
    /\ pc = "emit"
    /\ Len(sym_table[1]) = 2
    /\ Len(sym_table[2]) = 2
    /\ Cardinality({s \in SlotIds : Deps(s) # {}}) = 3

-----------------------------------------------------------------------------
(* Properties of the whole link: no partial output.                        *)

\* The fatal conditions of link(): every one but a failed write of main.
CoreFatal == fatal \notin {"none", "cannot write output file"}

\* A file is written only after a buffer was emitted for every output file
\* of the script, and never in a link that met a fatal condition of
\* link(); such a link has stopped.
NothingWrittenUnlessAllEmitted ==
    /\ written # <<>> =>
        /\ Len(outputs) = script.outfile_count
        /\ ~CoreFatal
        /\ \A i \in 1..Len(written) : written[i] = outputs[i].body
    /\ CoreFatal => written = <<>> /\ pc = "fatal"
    /\ pc \in {"write", "exit"} => Len(outputs) = script.outfile_count

\* A link that has aborted takes no further step.
AbortedStep == pc = "fatal" => UNCHANGED vars

\* C22: a fatal condition in LinkGraph::new, LinkLayout::new, the resolver
\* or the emission of any output file, a later one included, ends the link
\* there, and no output file is written unless a buffer was emitted for
\* every output file of the script.
C22_NoPartialOutput ==
    []NothingWrittenUnlessAllEmitted /\ [][AbortedStep]_vars

\* The emission of the second output file has aborted after the buffer of
\* the first was emitted, and nothing was written.
C22_Witness ==
    /\ pc = "fatal"
    /\ fatal = "expr value overflow"
    /\ script.outfile_count = 2
    /\ Len(outputs) = 1
    /\ written = <<>>

-----------------------------------------------------------------------------
(* Properties of section-address nodes.                                    *)

\* The local sections an expression refers to.
RECURSIVE SectionsOf(_)
SectionsOf(e) ==
    CASE e.kind = "Section" -> {e.section_idx}
      [] e.kind = "Unary" -> SectionsOf(e.expr)
      [] e.kind = "Binary" -> SectionsOf(e.lhs) \cup SectionsOf(e.rhs)
      [] OTHER -> {}

\* The start Layout recorded for a mapped local section: the section's
\* identity is its place among the mapped sections of the input.
TargetStart(obj_i, k) ==
    LET id == CHOOSE n \in 1..Len(MappedObjSects) :
                    MappedObjSects[n] = <<obj_i, k>>
    IN  At(layout.sects, id - 1).val.start

\* An expression of an object refers to a section without a global section.
RefersToDropped(obj_i, e) ==
    \E k \in SectionsOf(e) : ~IsDeclared(<<obj_i, k>>)

\* The expression fragment of the first section of the first object.
FirstFrag == objs[1].sections[1].fragments[1]

\* The resolver at a section-address node whose target was dropped aborts.
ResolverSectionStep ==
    /\ pc = "solve"
    /\ stack # <<>>
    /\ stack[Len(stack)].ip <= Len(stack[Len(stack)].code)
    /\ stack[Len(stack)].code[stack[Len(stack)].ip].kind = "Section"
    => LET node == stack[Len(stack)].code[stack[Len(stack)].ip] IN
       IF IsDeclared(<<NodeExport.obj_i, node.section_idx>>)
       THEN /\ pc' = "solve"
            /\ stack'[Len(stack)].vals =
                Append(stack[Len(stack)].vals,
                       as_i64(TargetStart(NodeExport.obj_i,
                                          node.section_idx)))
       ELSE /\ pc' = "fatal"
            /\ fatal' = "invalid section expr"

\* The emitter on a fragment that refers to a dropped section aborts.
EmitterSectionStep ==
    /\ pc = "emit"
    /\ Len(outputs) < file_count(graph)
    /\ RefersToDropped(0, FirstFrag.expr)
    => /\ pc' = "fatal"
       /\ fatal' = "unknown section"
       /\ outputs' = outputs

\* A slot bound to an export that is a bare section-address node is
\* resolved only to the start of that section, which is mapped; a buffer
\* is emitted for a fragment that is a bare section-address node only if
\* the section is mapped, and holds its start; and the two errors are
\* raised only for an expression that refers to a dropped section.
SectionNodeValues ==
    /\ table # <<>> =>
        \A s \in SlotIds :
            /\ BoundExport(s).expr.kind = "Section"
            /\ SlotState(s).tag = "Done"
            => /\ IsDeclared(<<BoundExport(s).obj_i,
                               BoundExport(s).expr.section_idx>>)
               /\ SlotState(s).value =
                    as_i64(TargetStart(BoundExport(s).obj_i,
                                       BoundExport(s).expr.section_idx))
    /\ sym_table # <<>> =>
        \A s \in SlotIds : ~RefersToDropped(BoundExport(s).obj_i,
                                            BoundExport(s).expr)
    /\ outputs # <<>> =>
        /\ ~RefersToDropped(0, FirstFrag.expr)
        /\ FirstFrag.expr.kind = "Section" =>
            LET a == TargetStart(0, FirstFrag.expr.section_idx) IN
            SubSeq(outputs[1].body, 1, 2) = <<a % 256, a \div 256>>
    /\ fatal = "invalid section expr" =>
        /\ sym_table = <<>>
        /\ \E n \in 1..Len(exports) :
            RefersToDropped(exports[n].obj_i, exports[n].expr)
    /\ fatal = "unknown section" =>
        /\ sym_table # <<>>
        /\ RefersToDropped(0, FirstFrag.expr)

\* C23: a section-address node whose local section has no global section
\* is a fatal error, in an export's expression when the resolver evaluates
\* it and in a fragment's expression when the emitter evaluates it; a node
\* whose section is mapped has the start Layout recorded for that section
\* as its value.
C23_SectionAddressNodes ==
    /\ [][ResolverSectionStep]_vars
    /\ [][EmitterSectionStep]_vars
    /\ []SectionNodeValues

\* The emitter has aborted on a fragment that refers to the dropped second
\* section, after the resolver resolved x to the start of the mapped first
\* section and y to the start of the second object's section.
C23_Witness ==
    /\ pc = "fatal"
    /\ fatal = "unknown section"
    /\ FirstFrag.expr = SectionRef(1)
    /\ Len(objs[1].imports) = 2
    /\ BoundExport(<<0, 0>>).expr = SectionRef(0)
    /\ Slot(sym_table, 0, 0).value = as_i64(32768)
    /\ Slot(sym_table, 0, 1).value = as_i64(32770)

-----------------------------------------------------------------------------
(* Properties of the bytes of an expression fragment.                      *)

\* The expression fragment of the byte family and its value.
MidFrag == objs[1].sections[1].fragments[2]

MidValue ==
    IF MidFrag.expr.kind = "Literal" THEN MidFrag.expr.value
    ELSE i64_neg(MidFrag.expr.expr.value)

\* The value modulo 256^w, for a value in the range of a type of w bytes:
\* the value itself, or the value plus 256^w when it is negative.
ModPow256(v, w) ==
    IF i64_le(as_i64(0), v) THEN v ELSE i64_add(v, Pow256(w))

\* The digits of a value in 0..256^4-1 to the base 256, the least first.
Digits256(u) ==
    <<u.lo % 256, u.lo \div 256, u.hi % 256, u.hi \div 256>>

\* C24: the buffer emitted for a section made of the byte AA, an in-range
\* expression fragment of a type of w bytes and the byte BB is AA, then
\* the w least significant base-256 digits of the value modulo 256^w,
\* least significant first, then BB: the fragment writes exactly w bytes
\* at the cursor and advances the cursor by w.
C24_LittleEndianInDeclaredWidth ==
    outputs # <<>> =>
        LET w == ExprWidth(MidFrag.kind) IN
        /\ InTypeRange(MidFrag.kind, MidValue)
        /\ outputs[1].body =
            <<170>> \o SubSeq(Digits256(ModPow256(MidValue, w)), 1, w)
                \o <<187>>

\* The buffer AA FF FF FF BB emitted for a 3-byte signed fragment of value
\* -1.
C24_Witness ==
    /\ outputs # <<>>
    /\ MidFrag.kind = "ExprI24"
    /\ MidValue = i64_neg(as_i64(1))
    /\ outputs[1].body = <<170, 255, 255, 255, 187>>

-----------------------------------------------------------------------------
(* Properties of fill runs and of the order of fragments.                  *)

\* The bytes a fragment stands for in a segment whose fill byte is fb; an
\* expression fragment of the emit family is the import x.
FragBytes(obj_i, frag, fb) ==
    CASE frag.kind = "Literal" -> frag.bytes
      [] frag.kind = "Fill" -> [n \in 1..frag.len |-> fb]
      [] OTHER ->
            SubSeq(Digits256(Slot(sym_table, obj_i,
                                  frag.expr.import_idx).value),
                   1, ExprWidth(frag.kind))

\* The fill byte the script gives a section: the override of its segment,
\* or else the fill byte of the segment's memory.
ScriptFillByte(sect_i) ==
    LET seg == At(script.segs, At(graph.sect_to_seg, sect_i)) IN
    IF seg.fill_byte.some THEN seg.fill_byte.val
    ELSE At(script.mems, seg.mem_i).fill_byte

\* The bytes of a section's fragments one after the other.
SectionBytes(sect_i) ==
    LET os == At(graph.sect_to_obj_sect, sect_i)
        frags == At(At(objs, os[1]).sections, os[2]).fragments
    IN  Flatten([n \in 1..Len(frags) |->
                    FragBytes(os[1], frags[n], ScriptFillByte(sect_i))])

\* The place of a section in the buffer of its file.
SectionOffset(sect_i) ==
    LET mem_i == At(script.segs, At(graph.sect_to_seg, sect_i)).mem_i IN
    At(layout.mems, mem_i).val.file_off
        + At(layout.sects, sect_i).val.start
        - memory_start(At(script.mems, mem_i))

\* C25: in an emitted buffer every section that is output begins with the
\* bytes of its fragments in fragment order without a gap, a fill run of N
\* bytes being N copies of the override fill byte of the section's segment
\* when it has one and of the fill byte of the memory otherwise.
C25_FillRunsAndFragmentOrder ==
    outputs # <<>> =>
        \A sect_i \in SectIdxs :
            At(layout.sects, sect_i).val.output_len > 0 =>
                SubSeq(outputs[1].body, SectionOffset(sect_i) + 1,
                       SectionOffset(sect_i) + Len(SectionBytes(sect_i)))
                    = SectionBytes(sect_i)

\* A buffer with a fill run of the segment's override fill byte EE after
\* literal bytes, followed by a fill run of the memory's fill byte FF and
\* a literal byte in a segment without an override.
C25_Witness ==
    /\ outputs # <<>>
    /\ At(script.mems, 0).fill_byte = 255
    /\ outputs[1].body = <<170, 187, 204, 221, 238, 238, 255, 255, 9>>

-----------------------------------------------------------------------------
(* Properties of the file offsets.                                         *)

\* The memories the script maps to an output file, in declaration order.
ScriptFileMems(f) ==
    LET InFile(i) == At(script.mems, i).outfile_i = f IN
    SelectSeq([i \in 1..Len(script.mems) |-> i - 1], InFile)

MemOutputLen(mem_i) == At(layout.mems, mem_i).val.output_len

\* C26: in a returned layout the memories of each output file are those
\* the script maps to it, in declaration order; the first has file offset
\* 0 and each later one the offset of the one before it plus that one's
\* output length; the file's length is the sum of the output lengths of
\* its memories; and every buffer the emitter returns has the length of
\* its file.
C26_FileOffsetsAreConsecutive ==
    /\ LayoutDone =>
        \A f \in 0..(script.outfile_count - 1) :
            LET ms == ScriptFileMems(f) IN
            /\ At(graph.file_to_mems, f) = ms
            /\ \A k \in 1..Len(ms) :
                /\ At(layout.mems, ms[k]).val.file_off =
                    SumSeq([j \in 1..(k - 1) |-> MemOutputLen(ms[j])])
                /\ k > 1 =>
                    At(layout.mems, ms[k]).val.file_off =
                        At(layout.mems, ms[k - 1]).val.file_off
                            + MemOutputLen(ms[k - 1])
            /\ At(layout.files, f).val.len =
                SumSeq([j \in 1..Len(ms) |-> MemOutputLen(ms[j])])
    /\ \A n \in 1..Len(outputs) :
        Len(outputs[n].body) = At(layout.files, n - 1).val.len

\* A buffer was emitted for a file of two memories that both have output,
\* the second of them, not filled, lying after the first, which is filled.
C26_Witness ==
    /\ outputs # <<>>
    /\ script.outfile_count = 1
    /\ Len(script.mems) = 2
    /\ At(script.mems, 0).filled
    /\ ~At(script.mems, 1).filled
    /\ MemOutputLen(1) > 0
    /\ At(layout.mems, 1).val.file_off = MaxMemLen
    /\ Len(outputs[1].body) = MaxMemLen + MemOutputLen(1)

-----------------------------------------------------------------------------
(* Properties of the place of sections in their memory.                    *)

\* The memory a section's segment is loaded into.
SectMem(sect_i) == At(script.segs, At(graph.sect_to_seg, sect_i)).mem_i

\* C27 as the claim states it: LinkGraph::new, LinkLayout::new and the
\* resolver having succeeded, every section with output lies inside the
\* output buffer of its memory: its start minus the memory's minimum
\* address, plus its output length, is at most the memory's output length.
C27_AsStated ==
    sym_table # <<>> =>
        \A sect_i \in SectIdxs :
            At(layout.sects, sect_i).val.output_len > 0 =>
                At(layout.sects, sect_i).val.start
                    - memory_start(At(script.mems, SectMem(sect_i)))
                    + At(layout.sects, sect_i).val.output_len
                <= MemOutputLen(SectMem(sect_i))

\* C28 as the claim states it: in a returned layout the addresses
\* start .. start + raw length - 1 of every section that has any, BSS
\* sections included, lie between the minimum and the maximum address of
\* the memory of its segment.
C28_AsStated ==
    LayoutDone =>
        \A sect_i \in SectIdxs :
            RawLen(sect_i) > 0 =>
                /\ At(script.mems, SectMem(sect_i)).range.min
                    <= At(layout.sects, sect_i).val.start
                /\ SectEnd(sect_i) - 1
                    <= At(script.mems, SectMem(sect_i)).range.max


\* The slots of the resolver's table, those marked Resolving, and those of
\* the activations of resolve_import that have not returned.
TableSlots ==
    UNION {{<<obj_i, imp_i>> : imp_i \in 0..(Len(At(table, obj_i)) - 1)} :
             obj_i \in 0..(Len(table) - 1)}

ResolvingSlots == {s \in TableSlots : SlotState(s).tag = "Resolving"}

ActivePath == {StackSlots[n] : n \in 1..Len(stack)}

\* symbol.rs:166 and 178 are the only writes of a slot's state: Unresolved
\* to Resolving, Resolving to Done; every other step leaves the slot alone.
SlotMovesForward ==
    table # <<>> =>
        /\ Len(table') = Len(table)
        /\ \A s \in TableSlots :
            LET old == SlotState(s)
                new == Slot(table', s[1], s[2]).state
            IN  \/ new = old
                \/ old.tag = "Unresolved" /\ new.tag = "Resolving"
                \/ old.tag = "Resolving" /\ new.tag = "Done"

\* While the resolver runs, the Resolving slots are the slots of the
\* active calls, each once.
ResolvingIsActivePath ==
    fatal = "none" =>
        /\ ResolvingSlots = ActivePath
        /\ Cardinality(ActivePath) = Len(stack)

\* Between two calls of the top-level loop no slot is Resolving.
NoneResolvingBetweenCalls ==
    fatal = "none" /\ stack = <<>> => ResolvingSlots = {}

\* C29: a slot's state only moves Unresolved -> Resolving -> Done and a
\* Done slot keeps its state and value; at every moment of the resolver's
\* run the Resolving slots are exactly the slots on the active evaluation
\* path; after each top-level resolve_import call has returned no slot is
\* Resolving.
C29_SlotStatesMoveForward ==
    /\ [][SlotMovesForward]_vars
    /\ []ResolvingIsActivePath
    /\ []NoneResolvingBetweenCalls

\* Two nested calls are active (both slots Resolving) while one slot is
\* already Done and another still Unresolved.
C29_Witness ==
    /\ pc = "solve"
    /\ fatal = "none"
    /\ Len(stack) = 2
    /\ Cardinality(ResolvingSlots) = 2
    /\ \E s \in TableSlots : SlotState(s).tag = "Done"
    /\ \E s \in TableSlots : SlotState(s).tag = "Unresolved"

\* resolve_import and resolve_expr as the recursive functions they are
\* (symbol.rs:158-220), returning the table they leave, the value, and the
\* panic if there is one; the entry of resolve_import is EnterImport.
Ok(tbl, v) == [fatal |-> "none", table |-> tbl, value |-> v]
Panic(tbl, msg) == [fatal |-> msg, table |-> tbl, value |-> as_i64(0)]

RECURSIVE resolve_import(_, _, _, _)
RECURSIVE resolve_expr(_, _, _, _)
resolve_import(tbl, exps, obj_i, imp_i) ==
    LET r == EnterImport(tbl, exps, obj_i, imp_i) IN
    CASE r.kind = "value" -> Ok(r.table, r.value)
      [] r.kind = "fatal" -> Panic(r.table, r.fatal)
      [] r.kind = "call" ->
            LET export_i == r.frame.export_i
                v == resolve_expr(r.table, exps, export_i,
                                  At(exps, export_i).expr)
            IN  IF v.fatal # "none" THEN v
                ELSE Ok(SetState(v.table, obj_i, imp_i, Done(v.value)),
                        v.value)

resolve_expr(tbl, exps, export_i, e) ==
    LET export == At(exps, export_i) IN
    CASE e.kind = "Null" -> Panic(tbl, "expr is null")
      [] e.kind = "Literal" -> Ok(tbl, e.value)
      [] e.kind = "Symbol" ->
            IF export.addr_size
                   # Slot(tbl, export.obj_i, e.import_idx).addr_size
            THEN Panic(tbl, "address size mismatch")
            ELSE resolve_import(tbl, exps, export.obj_i, e.import_idx)
      [] e.kind = "Section" ->
            LET sect_i == At(At(graph.obj_sect_to_sect, export.obj_i),
                             e.section_idx)
            IN  IF sect_i.some
                THEN Ok(tbl, as_i64(At(layout.sects, sect_i.val).val.start))
                ELSE Panic(tbl, "invalid section expr")
      [] e.kind = "Unary" ->
            LET v == resolve_expr(tbl, exps, export_i, e.expr) IN
            IF v.fatal # "none" THEN v
            ELSE Ok(v.table, UnaryApply(e.op, v.value))
      [] e.kind = "Binary" ->
            LET l == resolve_expr(tbl, exps, export_i, e.lhs) IN
            IF l.fatal # "none" THEN l
            ELSE LET r == resolve_expr(l.table, exps, export_i, e.rhs) IN
                 IF r.fatal # "none" THEN r
                 ELSE Ok(r.table, BinaryApply(e.op, l.value, r.value))

\* The loop of Resolver::solve (lines 133-137) taking the slots in the
\* order given, and the conversion of lines 139-152.
RECURSIVE SolveInOrder(_, _, _)
SolveInOrder(tbl, exps, order) ==
    IF order = <<>> THEN Ok(tbl, as_i64(0))
    ELSE LET r == resolve_import(tbl, exps, Head(order)[1], Head(order)[2])
         IN  IF r.fatal # "none" THEN r
             ELSE SolveInOrder(r.table, exps, Tail(order))

SymbolEntries(tbl) ==
    [i \in 1..Len(tbl) |->
        [k \in 1..Len(tbl[i]) |->
            IF tbl[i][k].state.tag = "Done"
            THEN [addr_size |-> tbl[i][k].addr_size,
                  value |-> tbl[i][k].state.value]
            ELSE [addr_size |-> tbl[i][k].addr_size,
                  unreachable |-> TRUE]]]

\* The import slots of the objects and every order of taking them all.
ImportSlots ==
    UNION {{<<obj_i, imp_i>> :
                imp_i \in 0..(Len(At(objs, obj_i).imports) - 1)} :
             obj_i \in 0..(Len(objs) - 1)}

SlotOrders ==
    {q \in [1..Cardinality(ImportSlots) -> ImportSlots] :
        \A n, m \in 1..Len(q) : q[n] = q[m] => n = m}

ImportName(s) == At(At(objs, s[1]).imports, s[2]).name
SymValue(s) == At(At(sym_table, s[1]), s[2]).value

\* C30: in a link whose symbol table was built, two import slots of the
\* same name, in one object or in two, have the same value, and taking
\* the import slots in any order in the top-level loop of the resolver
\* gives, without a panic, the table the link has.
C30_SameNameSameValueAnyOrder ==
    sym_table # <<>> =>
        /\ \A s, t \in ImportSlots :
                ImportName(s) = ImportName(t) => SymValue(s) = SymValue(t)
        /\ \A q \in SlotOrders :
                LET r == SolveInOrder(UnresolvedTable(objs, exports),
                                      exports, q)
                IN  /\ r.fatal = "none"
                    /\ SymbolEntries(r.table) = sym_table

\* A finished link where both objects import the same two names in
\* opposite orders and one of the names is exported as a reference to
\* the other.
C30_Witness ==
    /\ pc = "exit"
    /\ Cardinality(ImportSlots) = 4
    /\ ImportName(<<0, 0>>) = ImportName(<<1, 1>>)
    /\ ImportName(<<0, 1>>) = ImportName(<<1, 0>>)
    /\ ImportName(<<0, 0>>) # ImportName(<<0, 1>>)
    /\ \E k \in 1..Len(exports) : exports[k].expr.kind = "Symbol"
    /\ SymValue(<<0, 0>>) = SymValue(<<1, 0>>)

=========================================================================
